---- MODULE Spec2Model ----
(***************************************************************************)
(* Model of the recommendation orchestrator of soundmatch                  *)
(* (Back-end/recommendation_engine.py) together with the provider          *)
(* accessors it calls (Back-end/spotify_api.py, Back-end/lastfm_api.py),   *)
(* of the retrying request client _make_spotify_request                    *)
(* (Back-end/spotify_api.py) and of the application token cache            *)
(* get_app_access_token (Back-end/app.py).                                 *)
(*                                                                         *)
(* Spec, SpecWide, SpecRegen: one behaviour is one call of                 *)
(* RecommendationEngine.get_recommendations.  A track is a record          *)
(* [id |-> i] (a normalised metadata-provider track) that gains the field  *)
(* lastfm_match when a similarity step tags it.  The artist ids of a track *)
(* are a function of its id (ArtistsOf).  Provider responses are drawn     *)
(* from bounded sets at every provider call.                               *)
(* SpecClient: one behaviour is one call of _make_spotify_request, the     *)
(* provider choosing the outcome of every HTTP request.                    *)
(* SpecToken: two threads call get_app_access_token again and again while  *)
(* time passes; every statement that reads or writes the cache is a step.  *)
(* SpecNorm: normalize_track applied to a raw track and to its own output. *)
(* SpecAccess: one call of search_tracks or get_artist_info, the provider  *)
(* choosing the answer of the HTTP request.                                *)
(* SpecPool: the thread pool of _get_genre_based_recommendations, one step *)
(* per worker return and per result taken by the coordinator.              *)
(* SpecSimilar: one call of process_artist, one step per similar artist.   *)
(* SpecEndpoint: one request to /api/public/recommendations, from the      *)
(* handler's validation through get_recommendations to the response.       *)
(* SpecLogin: POSTs of the login form for one existing user while minutes  *)
(* pass; datetimes carry whether they are timezone-aware.                  *)
(***************************************************************************)
EXTENDS Integers, Sequences, FiniteSets, TLC

\* ------------------------------------------------------------------ bounds
MaxLimit == 2
MaxMatch == 1
MaxRecs == 2
MaxFan == 2
MaxRetries == 4
MaxClock == 4
MaxTokens == 2
MaxLoginClock == 32

\* ------------------------------------------------------- program constants
RegenFactor == 3
MaxNameLookups == 3
ExpandGenreFactor == 2
MaxSeedTracksExpand == 5
MaxSeedTracksNormal == 3
TracksToUseExpand == 10
TracksToUseNormal == 5
MaxTagsExpand == 5
MaxTagsNormal == 3
MaxGenresExpand == 5
MaxGenresNormal == 3
MaxGenreSeeds == 5

\* ------------------------------------------------------------ input domains
\* the catalogue: track 1 by artist 1, track 2 by artist 2, track 3 by artist 3
TrackIds == {1, 2, 3}
Matches == 0..MaxMatch
Limits == 0..MaxLimit
SeedArtistChoices == {<<>>, <<1>>, <<1, 2>>}
SeedTrackChoices == {<<>>, <<1>>}
SeedGenreChoices == {<<>>, <<"jazz">>}
ExcludeChoices == {E \in SUBSET TrackIds : Cardinality(E) <= 1}
ExcKinds == {"RequestException", "Other"}

\* the caps of the public endpoint: seed_artists[:5], min(limit, 100)
MaxSeeds == 5
LimitCap == 100

\* a direct call with six seed artists, the sixth being the artist of track 3
WideSeedArtists == <<4, 5, 6, 7, 8, 3>>
WideLimits == {1, LimitCap + 1}

\* regeneration over a catalogue of four tracks: what a genre search returns
RegenTrackIds == TrackIds \cup {4}
RegenSeedGenreChoices == {<<"jazz">>, <<"jazz", "rock">>}
RegenResponses ==
  {s \in UNION {[1..k -> {[id |-> i] : i \in RegenTrackIds}] :
                  k \in 0..Cardinality(RegenTrackIds)} :
     \A i, j \in DOMAIN s : s[i] = s[j] => i = j}

\* ------------------------------------------------------------------ helpers
Min(a, b) == IF a < b THEN a ELSE b

SeqsUpTo(S, n) == UNION {[1..k -> S] : k \in 0..n}

Range(s) == {s[i] : i \in DOMAIN s}

\* python s[:n] for n >= 0
Take(s, n) == SubSeq(s, 1, Min(n, Len(s)))

Ids(s) == {s[i].id : i \in DOMAIN s}

\* the artist ids carried by the metadata record of track t
ArtistsOf(t) == {t}

PlainTrack(i) == [id |-> i]

Tagged(i, m) == [id |-> i, lastfm_match |-> m]

\* x.get('lastfm_match', 0)
MatchKey(t) == IF "lastfm_match" \in DOMAIN t THEN t.lastfm_match ELSE 0

\* not any(aid in seed_artists for aid in track_artist_ids)
NotBySeedArtist(i, seeds) == ArtistsOf(i) \cap Range(seeds) = {}

\* ---------------------------------------------------- exception handling
\* `except requests.RequestException` of the metadata accessors
SpotifyHandler == "RequestException"

EngineHandlerNarrow == "RequestException"

\* `except Exception` of get_recommendations
EngineHandler == "Exception"

\* requests.Timeout and requests.ConnectionError derive from RequestException
IsInstance(e, cls) ==
  \/ cls = "Exception"
  \/ e = cls
  \/ cls = "RequestException" /\ e \in {"Timeout", "ConnectionError"}

\* value of fallback_out while the metadata fallback has not returned
NotReturned == <<[id |-> 0]>>

\* ------------------------------------------------------------------- state
VARIABLES
  pc,               \* position inside get_recommendations
  seed_artists, seed_tracks, seed_genres, limit, exclude_set,
  expand_search,    \* the argument, set to True at line 72 when regenerating
  result,           \* the result dictionary
  artist_names,     \* names resolved in the cascade
  recommendations,  \* candidate list of the running sub-strategy
  seen_track_ids,   \* its seen set
  finished,         \* process_artist futures that have completed
  st_idx,           \* similar-track step: index of the seed track in process
  st_items,         \* similar-track step: similar tracks left for that seed
  work_left,        \* fan-out of the running helper: work items still to come
  work_done,        \* ... and work items already consumed
  sub_recs,         \* candidate list local to the running helper
  exc,              \* exception in flight ("none" if none)
  caught,           \* exception swallowed by get_recommendations
  escaped,          \* an exception left get_recommendations
  ran,              \* strategies that were run
  called,           \* providers a request may have been sent to
  lastfm_nonempty,  \* some similarity-provider call returned a non-empty list
  contrib,          \* provider paths that returned at least one candidate
  fallback_out,     \* tracks returned by the metadata fallback, if it returned
  genre_offered,    \* ids the genre searches of the call have returned
  dropped_match,    \* highest score of a track the similar-artist step dropped
  \* _make_spotify_request
  rq_pc,            \* position inside _make_spotify_request
  max_retries,      \* its argument
  attempt,          \* the loop variable
  outcomes,         \* what requests.get did, one entry per HTTP request
  sleeps,           \* the arguments of time.sleep, in order
  rq_ret,           \* the value returned
  rq_raised,        \* an exception left _make_spotify_request
  \* get_app_access_token and _app_token_cache
  clock,            \* datetime.now, in minutes
  credentials,      \* SPOTIFY_CLIENT_ID and SPOTIFY_CLIENT_SECRET are configured
  cache_token,      \* _app_token_cache['token']
  cache_expires_at, \* _app_token_cache['expires_at']
  issued,           \* one record per successful exchange, indexed by token
  tk_pc,            \* position of each caller inside get_app_access_token
  tk_now,           \* its local `now`
  tk_token,         \* its local access_token
  tk_expires_in,    \* its local expires_in
  tk_posts,         \* requests.post calls of its current call
  tk_fail,          \* how the exchange of its current call failed
  tk_ret,           \* the value its last call returned
  tk_from_cache,    \* its last call returned line 2216's cache read
  \* normalize_track
  nt_pc,            \* "idle", "once" (normalised), "twice" (normalised again)
  nt_raw,           \* the argument of the first call
  nt_out,           \* what the first call returned
  nt_again,         \* what the call on that value returned
  \* search_tracks and get_artist_info
  ac_pc,            \* "idle", the accessor that is running, "returned"
  ac_fn,            \* the accessor that was called
  ac_answers,       \* the provider's answer to the request and to a repetition
  ac_requests,      \* HTTP requests the accessor has sent
  ac_ret,           \* the value it returned
  \* the process_genre pool of _get_genre_based_recommendations
  gp_pc,            \* "idle", "pool" (inside the with block), "returned"
  gp_limit,         \* the limit argument of the helper
  gp_status,        \* per tag: "queued", "running", "done", "taken"
  gp_recs,          \* the helper's recommendations list
  gp_stopped,       \* the coordinator has left the as_completed loop
  \* process_artist
  pa_pc,            \* "idle", "similar" (inside the inner pool), "returned"
  pa_names,         \* artist_names of the enclosing call
  pa_artist,        \* the argument artist_name
  pa_similar,       \* artists_to_use
  pa_left,          \* indices of the similar artists not yet processed
  pa_fetched,       \* names get_lastfm_top_tracks was called with
  pa_recs,          \* artist_recommendations
  \* public_get_recommendations
  ep_pc,            \* "idle", "engine" (inside get_recommendations), "responded"
  ep_data,          \* the JSON body of the request
  ep_seed_genres,   \* the handler's local seed_genres
  ep_status,        \* HTTP status of the response, 0 before it
  ep_recommendations, \* the list of the 200 response
  \* login and the lockout columns of the user
  lg_pc,            \* "idle", "answered"
  lg_clock,         \* minutes since the start
  lg_username,      \* username of the last POST
  lg_outcome,       \* "success", "locked", "invalid", "error"
  failed_login_attempts, account_locked, locked_until,
  failed_checks     \* failed password checks since the last success or unlock

engine == <<pc, seed_artists, seed_tracks, seed_genres, limit, exclude_set,
            expand_search,
            result, artist_names, recommendations, seen_track_ids,
            finished, st_idx, st_items, work_left, work_done, sub_recs,
            exc, caught, escaped, ran, called,
            lastfm_nonempty, contrib, fallback_out, genre_offered,
            dropped_match>>

client == <<rq_pc, max_retries, attempt, outcomes, sleeps, rq_ret, rq_raised>>

token_cache == <<clock, credentials, cache_token, cache_expires_at, issued>>

token_callers == <<tk_pc, tk_now, tk_token, tk_expires_in, tk_posts, tk_fail,
                   tk_ret, tk_from_cache>>

normalizer == <<nt_pc, nt_raw, nt_out, nt_again>>

accessors == <<ac_pc, ac_fn, ac_answers, ac_requests, ac_ret>>

genre_pool == <<gp_pc, gp_limit, gp_status, gp_recs, gp_stopped>>

similar == <<pa_pc, pa_names, pa_artist, pa_similar, pa_left, pa_fetched, pa_recs>>

endpoint == <<ep_pc, ep_data, ep_seed_genres, ep_status, ep_recommendations>>

accounts == <<lg_pc, lg_clock, lg_username, lg_outcome, failed_login_attempts,
              account_locked, locked_until, failed_checks>>

\* the components besides the engine, the request client and the token cache
others == <<normalizer, accessors, genre_pool, similar, endpoint, accounts>>

\* what get_recommendations does not touch
outside == <<client, token_cache, token_callers, others>>

vars == <<engine, client, token_cache, token_callers, others>>

inputs == <<seed_artists, seed_tracks, seed_genres, limit, exclude_set,
            expand_search>>

cascade == <<artist_names, recommendations, seen_track_ids, finished,
             st_idx, st_items>>

helper == <<work_left, work_done, sub_recs>>

ghosts == <<ran, called, lastfm_nonempty, contrib, fallback_out>>

excs == <<exc, caught, escaped>>

\* ----------------------------------------------- get_recommendations set-up
ExpandSearchArgOnly(arg, excluded) == arg

\* lines 71-72: expand_search after the test of exclude_track_ids
ExpandSearchAfter(arg, excluded) == arg \/ excluded # {}

ExpandSearch == expand_search

SearchLimit == IF exclude_set # {} THEN limit * RegenFactor ELSE limit

ResultInitFlagged == [tracks |-> <<>>, lastfm |-> TRUE, spotify |-> FALSE]

ResultInit == [tracks |-> <<>>, lastfm |-> FALSE, spotify |-> FALSE]

HasArtists == Len(seed_artists) > 0

HasTracks == Len(seed_tracks) > 0

HasGenres == Len(seed_genres) > 0

SelectStrategyLoose ==
  IF HasGenres /\ ~HasArtists THEN "genre"
  ELSE IF HasArtists THEN "artist"
  ELSE IF HasTracks THEN "track"
  ELSE "none"

SelectStrategy ==
  IF HasGenres /\ ~HasArtists /\ ~HasTracks THEN "genre"
  ELSE IF HasArtists THEN "artist"
  ELSE IF HasTracks THEN "track"
  ELSE "none"

FilterExcludedNone(s, E) == s

\* [t for t in tracks if t.get('id') not in exclude_set]
FilterExcluded(s, E) == SelectSeq(s, LAMBDA t : t.id \notin E)

\* entry of get_recommendations: argument defaults, exclude_set, result
Call ==
  /\ pc = "idle"
  /\ seed_artists' \in SeedArtistChoices
  /\ seed_tracks' \in SeedTrackChoices
  /\ seed_genres' \in SeedGenreChoices
  /\ limit' \in Limits
  /\ exclude_set' \in ExcludeChoices
  /\ \E arg \in BOOLEAN : expand_search' = ExpandSearchAfter(arg, exclude_set')
  /\ result' = ResultInit
  /\ pc' = "select"
  /\ UNCHANGED <<cascade, helper, excs, ghosts>>
  /\ UNCHANGED <<genre_offered, dropped_match, outside>>

\* the same entry, called with more seed artists than the endpoint passes on
\* and with a limit above its cap
CallWide ==
  /\ pc = "idle"
  /\ seed_artists' = WideSeedArtists
  /\ seed_tracks' \in SeedTrackChoices
  /\ seed_genres' \in SeedGenreChoices
  /\ limit' \in WideLimits
  /\ exclude_set' \in ExcludeChoices
  /\ expand_search' = ExpandSearchAfter(FALSE, exclude_set')
  /\ result' = ResultInit
  /\ pc' = "select"
  /\ UNCHANGED <<cascade, helper, excs, ghosts>>
  /\ UNCHANGED <<genre_offered, dropped_match, outside>>

\* the same entry, called with genres only and the ids of earlier results
CallRegen ==
  /\ pc = "idle"
  /\ seed_artists' = <<>>
  /\ seed_tracks' = <<>>
  /\ seed_genres' \in RegenSeedGenreChoices
  /\ limit' \in 1..MaxLimit
  /\ exclude_set' \in SUBSET RegenTrackIds
  /\ expand_search' = ExpandSearchAfter(FALSE, exclude_set')
  /\ result' = ResultInit
  /\ pc' = "select"
  /\ UNCHANGED <<cascade, helper, excs, ghosts>>
  /\ UNCHANGED <<genre_offered, dropped_match, outside>>

\* ------------------------------------------------------ merging candidates
\* the coordinator's inner loop over one future's tracks: append the track
\* when its id is unseen, stop as soon as len(recommendations) >= lim
RECURSIVE MergeLimitedNoSeen(_, _, _, _)
MergeLimitedNoSeen(recs, seen, new, lim) ==
  IF new = <<>> THEN [recs |-> recs, seen |-> seen]
  ELSE LET t == Head(new) IN
         IF Len(recs) + 1 >= lim
         THEN [recs |-> Append(recs, t), seen |-> seen \cup {t.id}]
         ELSE MergeLimitedNoSeen(Append(recs, t), seen \cup {t.id}, Tail(new), lim)

\* the record at the place of id i replaced by t
Overwrite(recs, t) == [k \in DOMAIN recs |-> IF recs[k].id = t.id THEN t ELSE recs[k]]

RECURSIVE MergeLimitedLastWins(_, _, _, _)
MergeLimitedLastWins(recs, seen, new, lim) ==
  IF new = <<>> THEN [recs |-> recs, seen |-> seen]
  ELSE LET t == Head(new) IN
         IF t.id \notin seen
         THEN IF Len(recs) + 1 >= lim
              THEN [recs |-> Append(recs, t), seen |-> seen \cup {t.id}]
              ELSE MergeLimitedLastWins(Append(recs, t), seen \cup {t.id}, Tail(new), lim)
         ELSE MergeLimitedLastWins(Overwrite(recs, t), seen, Tail(new), lim)

RECURSIVE MergeLimited(_, _, _, _)
MergeLimited(recs, seen, new, lim) ==
  IF new = <<>> THEN [recs |-> recs, seen |-> seen]
  ELSE LET t == Head(new) IN
         IF t.id \notin seen
         THEN IF Len(recs) + 1 >= lim
              THEN [recs |-> Append(recs, t), seen |-> seen \cup {t.id}]
              ELSE MergeLimited(Append(recs, t), seen \cup {t.id}, Tail(new), lim)
         ELSE MergeLimited(recs, seen, Tail(new), lim)

\* merge of a top-up list into result['tracks']: existing_ids and exclude_set
RECURSIVE MergeUnique(_, _, _)
MergeUnique(tracks, new, E) ==
  IF new = <<>> THEN tracks
  ELSE LET t == Head(new) IN
         IF t.id \notin Ids(tracks) /\ t.id \notin E
         THEN MergeUnique(Append(tracks, t), Tail(new), E)
         ELSE MergeUnique(tracks, Tail(new), E)

Injections(n) == {f \in [1..n -> 1..n] : \A i, j \in 1..n : f[i] = f[j] => i = j}

\* every order in which the elements of s can be arranged
PermsOf(s) == {[i \in 1..Len(s) |-> s[f[i]]] : f \in Injections(Len(s))}

\* ------------------------------------------------------------- providers
ProviderOf(fn) ==
  IF fn \in {"search_tracks", "get_artist_info", "get_artist_genres",
             "get_spotify_recommendations", "tracks_endpoint"}
  THEN "spotify" ELSE "lastfm"

ProvidersOf(fns) == {ProviderOf(f) : f \in fns}

GenreOnlyCalleesTags == {"search_tracks", "get_tag_top_artists"}

\* the provider accessors reached from _get_genre_only_recommendations
GenreOnlyCallees == {"search_tracks"}

\* what a metadata search can return: normalised tracks, every id present
PlainLists == SeqsUpTo({PlainTrack(i) : i \in TrackIds}, MaxRecs)

\* ------------------------------------------------- strategy 1: genre-only
\* the as_completed loop of the running helper was left through `break`
HelperStopped(lim) == work_done > 0 /\ Len(sub_recs) >= lim

\* line 93-99 and the head of _get_genre_only_recommendations (538-565)
GenreOnlyBegin ==
  /\ pc = "select"
  /\ SelectStrategy = "genre"
  /\ work_left' = Len(Take(seed_genres, MaxGenreSeeds))
  /\ work_done' = 0
  /\ sub_recs' = <<>>
  /\ ran' = ran \cup {"genre"}
  /\ pc' = "genre_search"
  /\ UNCHANGED <<inputs, result, cascade, excs, called, lastfm_nonempty,
                 contrib, fallback_out>>
  /\ UNCHANGED <<genre_offered, dropped_match, outside>>

\* one search_genre worker returns (570-635) and the coordinator merges its
\* tracks (642-652) unless it has already left the loop
SearchGenreFrom(responses) ==
  /\ pc = "genre_search"
  /\ work_left > 0
  /\ \E out \in responses :
       /\ sub_recs' = IF HelperStopped(SearchLimit) THEN sub_recs
                      ELSE MergeLimited(sub_recs, Ids(sub_recs), out, SearchLimit).recs
       /\ genre_offered' = genre_offered \cup Ids(out)
  /\ work_left' = work_left - 1
  /\ work_done' = work_done + 1
  /\ called' = called \cup ProvidersOf(GenreOnlyCallees)
  /\ UNCHANGED <<pc, inputs, result, cascade, excs, ran, lastfm_nonempty,
                 contrib, fallback_out, dropped_match, outside>>

SearchGenre == SearchGenreFrom(PlainLists)

SearchGenreRegen == SearchGenreFrom(RegenResponses)

\* lines 654-659 and 100-104: shuffle, cut to the search limit, return, drop
\* the excluded ids, cut to limit, set the source flag
GenreOnlyReturn ==
  /\ pc = "genre_search"
  /\ work_left = 0
  /\ \E shuffled \in PermsOf(sub_recs) :
       LET genre_recs == FilterExcluded(Take(shuffled, SearchLimit), exclude_set) IN
         /\ result' = [result EXCEPT !.tracks = Take(genre_recs, limit),
                                     !.lastfm = Len(genre_recs) > 0]
         /\ contrib' = contrib \cup (IF genre_recs # <<>> THEN {"spotify"} ELSE {})
  /\ work_done' = 0
  /\ sub_recs' = <<>>
  /\ pc' = "truncate"
  /\ UNCHANGED <<inputs, cascade, work_left, excs, ran, called,
                 lastfm_nonempty, fallback_out>>
  /\ UNCHANGED <<genre_offered, dropped_match, outside>>

\* no branch of the if/elif chain applies
NoStrategy ==
  /\ pc = "select"
  /\ SelectStrategy = "none"
  /\ pc' = "truncate"
  /\ UNCHANGED <<inputs, result, cascade, helper, excs, ghosts>>
  /\ UNCHANGED <<genre_offered, dropped_match, outside>>

TruncateToLimitOff(tracks, lim) == tracks

\* result['tracks'][:limit] of line 166
TruncateToLimit(tracks, lim) == Take(tracks, lim)

\* line 166: result['tracks'] = result['tracks'][:limit], then return
Truncate ==
  /\ pc = "truncate"
  /\ result' = [result EXCEPT !.tracks = TruncateToLimit(result.tracks, limit)]
  /\ pc' = "done"
  /\ UNCHANGED <<inputs, cascade, helper, excs, ghosts>>
  /\ UNCHANGED <<genre_offered, dropped_match, outside>>

\* lines 172-177: the except clause of get_recommendations, then return
ExceptClause ==
  /\ pc = "raising"
  /\ IF IsInstance(exc, EngineHandler)
     THEN caught' = exc /\ escaped' = escaped
     ELSE caught' = caught /\ escaped' = TRUE
  /\ exc' = "none"
  /\ pc' = "done"
  /\ UNCHANGED <<inputs, result, cascade, helper, ghosts>>
  /\ UNCHANGED <<genre_offered, dropped_match, outside>>

\* --------------------------------------- similarity cascade (strategies 2, 3)
\* the elif branches of get_recommendations entering _get_lastfm_recommendations
BeginCascade ==
  /\ pc = "select"
  /\ SelectStrategy \in {"artist", "track"}
  /\ ran' = ran \cup {SelectStrategy}
  /\ pc' = "names"
  /\ UNCHANGED <<inputs, result, cascade, helper, excs, called, lastfm_nonempty,
                 contrib, fallback_out>>
  /\ UNCHANGED <<genre_offered, dropped_match, outside>>

\* the orders in which a subset of the looked-up names can arrive
NameOrders(seeds) ==
  {s \in SeqsUpTo(Range(seeds), Len(seeds)) :
     \A i, j \in DOMAIN s : s[i] = s[j] => i = j}

\* Step A: get_artist_name for seed_artists[:3]; a failed lookup gives ''
ResolveArtistNames ==
  /\ pc = "names"
  /\ \E names \in NameOrders(Take(seed_artists, MaxNameLookups)) :
       artist_names' = names
  /\ finished' = {}
  /\ called' = called \cup (IF HasArtists THEN ProvidersOf({"get_artist_info"}) ELSE {})
  /\ pc' = "similar_artists"
  /\ UNCHANGED <<inputs, result, recommendations, seen_track_ids, st_idx,
                 st_items, helper, excs, ran, lastfm_nonempty, contrib, fallback_out>>
  /\ UNCHANGED <<genre_offered, dropped_match, outside>>

\* what process_artist can return: tracks of artists that are not seeds,
\* each tagged with the match of the similar artist it came from
TaggedLists(seeds) ==
  SeqsUpTo({Tagged(i, m) : i \in {j \in TrackIds : NotBySeedArtist(j, seeds)},
                           m \in Matches}, MaxRecs)

\* dropped_match before any track was dropped
NoDrop == -1

Max(a, b) == IF a > b THEN a ELSE b

\* the highest score among `sofar` and the tracks of `out` that the
\* coordinator did not accept although their id was new
RECURSIVE HighestDropped(_, _, _)
HighestDropped(sofar, out, seen) ==
  IF out = <<>> THEN sofar
  ELSE HighestDropped(IF Head(out).id \notin seen
                      THEN Max(sofar, MatchKey(Head(out))) ELSE sofar,
                      Tail(out), seen)

\* the as_completed loop of lines 314-324 was left through `break`
PoolStopped == finished # {} /\ Len(recommendations) >= SearchLimit

\* Steps B and C: one process_artist worker returns and as_completed hands
\* its future to the coordinator, which merges it (lines 314-324) unless it
\* has already left the loop; then the result of the future is dropped
ProcessArtist(i) ==
  /\ pc = "similar_artists"
  /\ i \in DOMAIN artist_names
  /\ i \notin finished
  /\ \E similar_found \in BOOLEAN :
     \E out \in (IF similar_found THEN TaggedLists(seed_artists) ELSE {<<>>}) :
       LET r == IF PoolStopped
                THEN [recs |-> recommendations, seen |-> seen_track_ids]
                ELSE MergeLimited(recommendations, seen_track_ids, out, SearchLimit)
       IN /\ recommendations' = r.recs
          /\ seen_track_ids' = r.seen
          /\ dropped_match' = HighestDropped(dropped_match, out, r.seen)
          /\ lastfm_nonempty' = (lastfm_nonempty \/ similar_found)
          /\ called' = called \cup ProvidersOf({"get_similar_artists"})
                              \cup (IF similar_found
                                    THEN ProvidersOf({"get_lastfm_top_tracks", "search_tracks"})
                                    ELSE {})
  /\ finished' = finished \cup {i}
  /\ UNCHANGED <<pc, inputs, result, artist_names, st_idx, st_items, helper, excs,
                 ran, contrib, fallback_out>>
  /\ UNCHANGED <<genre_offered, outside>>

\* leaving the `with ThreadPoolExecutor` block: every worker has returned
LeaveArtistPool ==
  /\ pc = "similar_artists"
  /\ finished = DOMAIN artist_names
  /\ finished' = {}
  /\ st_idx' = 1
  /\ st_items' = 0
  /\ pc' = "st_seed"
  /\ UNCHANGED <<inputs, result, artist_names, recommendations,
                 seen_track_ids, helper, excs, ghosts>>
  /\ UNCHANGED <<genre_offered, dropped_match, outside>>

MaxSeedTracks == IF ExpandSearch THEN MaxSeedTracksExpand ELSE MaxSeedTracksNormal

TracksToUse == IF ExpandSearch THEN TracksToUseExpand ELSE TracksToUseNormal

\* Step D, outer loop (lines 331-353): next seed track, its metadata record
\* and its similar tracks; a failed lookup leaves no similar track
SimilarTracksSeed ==
  /\ pc = "st_seed"
  /\ IF st_idx > Len(Take(seed_tracks, MaxSeedTracks))
        \/ Len(recommendations) >= SearchLimit
     THEN /\ pc' = "tags"
          /\ st_idx' = 0
          /\ st_items' = 0
          /\ UNCHANGED <<called, lastfm_nonempty>>
     ELSE /\ \E n \in 0..MaxRecs :
               /\ st_items' = Min(n, TracksToUse)
               /\ lastfm_nonempty' = (lastfm_nonempty \/ n > 0)
          /\ called' = called \cup ProvidersOf({"tracks_endpoint", "get_similar_tracks"})
          /\ pc' = "st_item"
          /\ UNCHANGED st_idx
  /\ UNCHANGED <<inputs, result, artist_names, recommendations,
                 seen_track_ids, finished, helper, excs, ran, contrib,
                 fallback_out>>
  /\ UNCHANGED <<genre_offered, dropped_match, outside>>

\* the first search hit whose id is unseen, tagged with the match (372-378)
FirstUnseen(hits, seen, m) ==
  LET idx == {k \in DOMAIN hits : hits[k].id \notin seen} IN
    IF idx = {} THEN <<>>
    ELSE LET k == CHOOSE k \in idx : \A l \in idx : k <= l IN
           <<Tagged(hits[k].id, m)>>

\* Step D, inner loop (lines 355-378): one similar track is searched
SimilarTrackItem ==
  /\ pc = "st_item"
  /\ IF st_items = 0 \/ Len(recommendations) >= SearchLimit
     THEN /\ st_idx' = st_idx + 1
          /\ st_items' = 0
          /\ pc' = "st_seed"
          /\ UNCHANGED <<recommendations, seen_track_ids, called>>
     ELSE /\ \E m \in Matches : \E hits \in PlainLists :
               LET new == FirstUnseen(hits, seen_track_ids, m) IN
                 /\ recommendations' = recommendations \o new
                 /\ seen_track_ids' = seen_track_ids \cup Ids(new)
          /\ st_items' = st_items - 1
          /\ called' = called \cup ProvidersOf({"search_tracks"})
          /\ UNCHANGED <<pc, st_idx>>
  /\ UNCHANGED <<inputs, result, artist_names, finished, helper, excs,
                 ran, lastfm_nonempty, contrib, fallback_out>>
  /\ UNCHANGED <<genre_offered, dropped_match, outside>>

\* what a tag worker can return: untagged tracks of artists that are not seeds
AdmissiblePlainLists(seeds) ==
  SeqsUpTo({PlainTrack(i) : i \in {j \in TrackIds : NotBySeedArtist(j, seeds)}},
           MaxRecs)

MaxTags == IF ExpandSearch THEN MaxTagsExpand ELSE MaxTagsNormal

\* genre_limit of line 386
GenreLimit ==
  IF ExpandSearch
  THEN (SearchLimit - Len(recommendations)) * ExpandGenreFactor
  ELSE SearchLimit - Len(recommendations)

\* lines 393-397: every unseen genre track is appended
RECURSIVE AppendUnseen(_, _, _)
AppendUnseen(recs, seen, new) ==
  IF new = <<>> THEN [recs |-> recs, seen |-> seen]
  ELSE LET t == Head(new) IN
         IF t.id \notin seen
         THEN AppendUnseen(Append(recs, t), seen \cup {t.id}, Tail(new))
         ELSE AppendUnseen(recs, seen, Tail(new))

TagStepRunsWithoutNames == ExpandSearch \/ Len(recommendations) < SearchLimit

\* the test of line 385
TagStepRuns ==
  (ExpandSearch \/ Len(recommendations) < SearchLimit) /\ artist_names # <<>>

\* Step E, entry (lines 385-392, 414-439): the tags of the resolved artists;
\* an error while the tags are read is not handled inside the cascade
TagStep ==
  /\ pc = "tags"
  /\ IF TagStepRuns
     THEN /\ called' = called \cup ProvidersOf({"get_artist_tags"})
          /\ \/ /\ exc' = "Other"
                /\ pc' = "raising"
                /\ UNCHANGED <<work_left, lastfm_nonempty>>
             \/ /\ \E ntags \in 0..MaxFan :
                     /\ work_left' = Min(ntags, MaxTags)
                     /\ lastfm_nonempty' = (lastfm_nonempty \/ ntags > 0)
                /\ pc' = "tag_workers"
                /\ UNCHANGED exc
     ELSE /\ pc' = "tag_workers"
          /\ UNCHANGED <<work_left, lastfm_nonempty, called, exc>>
  /\ work_done' = 0
  /\ sub_recs' = <<>>
  /\ UNCHANGED <<inputs, result, cascade, caught, escaped, ran, contrib,
                 fallback_out>>
  /\ UNCHANGED <<genre_offered, dropped_match, outside>>

\* one process_genre worker returns (442-507) and the coordinator of
\* _get_genre_based_recommendations merges its tracks (513-523) unless it has
\* already left the loop
ProcessGenre ==
  /\ pc = "tag_workers"
  /\ work_left > 0
  /\ \E out \in AdmissiblePlainLists(seed_artists) :
       sub_recs' = IF HelperStopped(GenreLimit) THEN sub_recs
                   ELSE MergeLimited(sub_recs, Ids(sub_recs), out, GenreLimit).recs
  /\ work_left' = work_left - 1
  /\ work_done' = work_done + 1
  /\ called' = called \cup ProvidersOf({"get_tag_top_artists",
                                        "get_lastfm_top_tracks", "search_tracks"})
  /\ UNCHANGED <<pc, inputs, result, cascade, excs, ran, lastfm_nonempty,
                 contrib, fallback_out>>
  /\ UNCHANGED <<genre_offered, dropped_match, outside>>

RECURSIVE InsertDescUnstable(_, _)
InsertDescUnstable(sorted, t) ==
  IF sorted = <<>> THEN <<t>>
  ELSE IF MatchKey(Head(sorted)) > MatchKey(t)
       THEN <<Head(sorted)>> \o InsertDescUnstable(Tail(sorted), t)
       ELSE <<t>> \o sorted

\* list.sort(key=lastfm_match or 0, reverse=True): stable, descending
RECURSIVE InsertDesc(_, _)
InsertDesc(sorted, t) ==
  IF sorted = <<>> THEN <<t>>
  ELSE IF MatchKey(Head(sorted)) >= MatchKey(t)
       THEN <<Head(sorted)>> \o InsertDesc(Tail(sorted), t)
       ELSE <<t>> \o sorted

RECURSIVE SortByMatchDesc(_)
SortByMatchDesc(s) ==
  IF s = <<>> THEN <<>>
  ELSE InsertDesc(SortByMatchDesc(SubSeq(s, 1, Len(s) - 1)), s[Len(s)])

\* lines 393-402 and the caller's lines 116-118 / 161-163: append the unseen
\* genre tracks, sort, cut to the search limit, return, drop the excluded
\* ids, store the list, set the source flag
CascadeReturn ==
  /\ pc = "tag_workers"
  /\ work_left = 0
  /\ LET all == AppendUnseen(recommendations, seen_track_ids, sub_recs).recs
         lastfm_tracks ==
           FilterExcluded(Take(SortByMatchDesc(all), SearchLimit), exclude_set)
     IN /\ result' = [result EXCEPT !.tracks = lastfm_tracks,
                                    !.lastfm = Len(lastfm_tracks) > 0]
        /\ contrib' = contrib \cup (IF lastfm_tracks # <<>> THEN {"lastfm"} ELSE {})
  /\ artist_names' = <<>>
  /\ recommendations' = <<>>
  /\ seen_track_ids' = {}
  /\ work_done' = 0
  /\ sub_recs' = <<>>
  /\ pc' = IF SelectStrategy = "artist" THEN "topup_genre" ELSE "truncate"
  /\ UNCHANGED <<inputs, finished, st_idx, st_items, work_left, excs, ran,
                 called, lastfm_nonempty, fallback_out>>
  /\ UNCHANGED <<genre_offered, dropped_match, outside>>

\* ------------------------------------------- top-ups of the artist strategy
\* Step 2 (lines 121-134): get_spotify_recommendations and the merge
GenreTopUp ==
  /\ pc = "topup_genre"
  /\ IF Len(result.tracks) < limit /\ HasGenres
     THEN /\ called' = called \cup ProvidersOf({"get_spotify_recommendations"})
          /\ \/ \E e \in ExcKinds :
                  IF IsInstance(e, SpotifyHandler)
                  THEN /\ pc' = "fallback"
                       /\ UNCHANGED <<result, exc, contrib>>
                  ELSE /\ exc' = e
                       /\ pc' = "raising"
                       /\ UNCHANGED <<result, contrib>>
             \/ \E genre_tracks \in PlainLists :
                  LET tracks == MergeUnique(result.tracks, genre_tracks, exclude_set) IN
                    /\ result' = [result EXCEPT !.tracks = tracks]
                    /\ contrib' = contrib \cup (IF tracks # result.tracks
                                                THEN {"spotify"} ELSE {})
                    /\ pc' = "fallback"
                    /\ UNCHANGED exc
     ELSE /\ pc' = "fallback"
          /\ UNCHANGED <<result, exc, contrib, called>>
  /\ UNCHANGED <<inputs, cascade, helper, caught, escaped, ran, lastfm_nonempty,
                 fallback_out>>
  /\ UNCHANGED <<genre_offered, dropped_match, outside>>

NeedsFallbackAlways(tracks, lim) == TRUE

NeedsFallbackFlipped(tracks, lim) == Len(tracks) > lim

\* the test of line 137
NeedsFallback(tracks, lim) == Len(tracks) < lim

MaxGenres == IF ExpandSearch THEN MaxGenresExpand ELSE MaxGenresNormal

\* limit argument of _get_spotify_fallback_recommendations (line 140)
FallbackLimit == SearchLimit - Len(result.tracks)

\* Step 3, entry (lines 137-142, 671-688): the genres of the seed artists;
\* an unexpected value among them is not handled inside the helper
Fallback ==
  /\ pc = "fallback"
  /\ IF NeedsFallback(result.tracks, limit)
     THEN /\ called' = called \cup ProvidersOf({"get_artist_genres"})
          /\ \/ /\ exc' = "Other"
                /\ pc' = "raising"
                /\ UNCHANGED work_left
             \/ /\ \E ngenres \in 0..MaxFan : work_left' = Min(ngenres, MaxGenres)
                /\ pc' = "fallback_search"
                /\ UNCHANGED exc
     ELSE /\ pc' = "truncate"
          /\ UNCHANGED <<work_left, exc, called>>
  /\ work_done' = 0
  /\ sub_recs' = <<>>
  /\ UNCHANGED <<inputs, result, cascade, caught, escaped, ran,
                 lastfm_nonempty, contrib, fallback_out>>
  /\ UNCHANGED <<genre_offered, dropped_match, outside>>

\* one turn of the genre loop (lines 692-711): a search, its tracks that are
\* unseen and not by a seed artist appended up to the limit
FallbackSearch ==
  /\ pc = "fallback_search"
  /\ work_left > 0
  /\ Len(sub_recs) < FallbackLimit
  /\ \E out \in PlainLists :
       LET admissible == SelectSeq(out, LAMBDA t : NotBySeedArtist(t.id, seed_artists)) IN
         sub_recs' = MergeLimited(sub_recs, Ids(sub_recs), admissible, FallbackLimit).recs
  /\ work_left' = work_left - 1
  /\ work_done' = work_done + 1
  /\ called' = called \cup ProvidersOf({"search_tracks"})
  /\ UNCHANGED <<pc, inputs, result, cascade, excs, ran, lastfm_nonempty,
                 contrib, fallback_out>>
  /\ UNCHANGED <<genre_offered, dropped_match, outside>>

\* lines 713 and 143-150: the helper returns, its tracks are merged into
\* result['tracks'], the metadata flag is set
FallbackReturn ==
  /\ pc = "fallback_search"
  /\ work_left = 0 \/ Len(sub_recs) >= FallbackLimit
  /\ LET tracks == MergeUnique(result.tracks, sub_recs, exclude_set) IN
       /\ result' = [result EXCEPT !.tracks = tracks,
                                   !.spotify = Len(sub_recs) > 0]
       /\ contrib' = contrib \cup (IF tracks # result.tracks THEN {"spotify"} ELSE {})
  /\ fallback_out' = sub_recs
  /\ work_left' = 0
  /\ work_done' = 0
  /\ sub_recs' = <<>>
  /\ pc' = "truncate"
  /\ UNCHANGED <<inputs, cascade, excs, ran, called, lastfm_nonempty>>
  /\ UNCHANGED <<genre_offered, dropped_match, outside>>

\* ------------------------------------------------- _make_spotify_request
DefaultRetryAfter == 60

\* response.status_code values the provider answers with
Statuses == {200, 401}

\* Retry-After header values, as the decimal digits the provider sends
RetryAfterHeaders == {<<1>>, <<3, 0>>}

\* the 429 responses: the header is absent or carries a number of seconds
RateLimitResponses ==
  {[kind |-> "response", status |-> 429, has_retry_after |-> FALSE, retry_after |-> <<>>]}
  \cup {[kind |-> "response", status |-> 429, has_retry_after |-> TRUE, retry_after |-> h] :
          h \in RetryAfterHeaders}

OtherResponses ==
  {[kind |-> "response", status |-> s, has_retry_after |-> FALSE, retry_after |-> <<>>] :
     s \in Statuses}

\* what requests.get raises: requests.Timeout, requests.ConnectionError
RequestFailures ==
  {[kind |-> e, status |-> 0, has_retry_after |-> FALSE, retry_after |-> <<>>] :
     e \in {"Timeout", "ConnectionError"}}

\* int() of a string of decimal digits
RECURSIVE ParseInt(_)
ParseInt(digits) ==
  IF digits = <<>> THEN 0
  ELSE 10 * ParseInt(SubSeq(digits, 1, Len(digits) - 1)) + digits[Len(digits)]

\* int(response.headers.get('Retry-After', 60))
RetryAfter(response) ==
  IF response.has_retry_after THEN ParseInt(response.retry_after)
  ELSE DefaultRetryAfter

RateLimitedNever(response) == FALSE

\* response.status_code == 429
RateLimited(response) == response.status = 429

\* wait_time = 2 ** attempt
Backoff(a) == 2 ^ a

ClientHandlersTimeoutOnly == <<"Timeout">>

\* the except clauses of the loop body, in order
ClientHandlers == <<"Timeout", "RequestException">>

Handled(e) == \E i \in DOMAIN ClientHandlers : IsInstance(e, ClientHandlers[i])

\* the python value None, and a returned response
None == <<>>

ClientIdle ==
  /\ rq_pc = "idle"
  /\ max_retries = 0
  /\ attempt = 0
  /\ outcomes = <<>>
  /\ sleeps = <<>>
  /\ rq_ret = None
  /\ rq_raised = FALSE

\* `continue`, or the end of a handler: the next turn of the for loop, or
\* line 355 when range(max_retries) is used up
NextAttempt ==
  /\ attempt' = attempt + 1
  /\ IF attempt + 1 < max_retries
     THEN rq_pc' = "loop" /\ rq_ret' = rq_ret
     ELSE rq_pc' = "returned" /\ rq_ret' = None

\* the call: with max_retries = 0 the loop body never runs
MakeSpotifyRequest ==
  /\ rq_pc = "idle"
  /\ \E n \in 0..MaxRetries :
       /\ max_retries' = n
       /\ IF n > 0
          THEN rq_pc' = "loop" /\ rq_ret' = rq_ret
          ELSE rq_pc' = "returned" /\ rq_ret' = None
  /\ UNCHANGED <<attempt, outcomes, sleeps, rq_raised>>
  /\ UNCHANGED <<engine, token_cache, token_callers, others>>

\* lines 321-332: the request is answered; a 429 is slept on and retried,
\* any other response is returned
GetResponse ==
  /\ rq_pc = "loop"
  /\ \E response \in RateLimitResponses \cup OtherResponses :
       /\ outcomes' = Append(outcomes, response)
       /\ IF RateLimited(response)
          THEN /\ sleeps' = Append(sleeps, [why |-> "rate_limit",
                                            secs |-> RetryAfter(response)])
               /\ NextAttempt
          ELSE /\ rq_ret' = <<response>>
               /\ rq_pc' = "returned"
               /\ UNCHANGED <<sleeps, attempt>>
  /\ UNCHANGED <<max_retries, rq_raised>>
  /\ UNCHANGED <<engine, token_cache, token_callers, others>>

\* lines 334-353: requests.get raises
RequestFails ==
  /\ rq_pc = "loop"
  /\ \E failure \in RequestFailures :
       /\ outcomes' = Append(outcomes, failure)
       /\ IF Handled(failure.kind)
          THEN /\ rq_raised' = rq_raised
               /\ IF attempt < max_retries - 1
                  THEN /\ sleeps' = Append(sleeps, [why |-> "backoff",
                                                    secs |-> Backoff(attempt)])
                       /\ NextAttempt
                  ELSE /\ rq_ret' = None
                       /\ rq_pc' = "returned"
                       /\ UNCHANGED <<sleeps, attempt>>
          ELSE /\ rq_raised' = TRUE
               /\ rq_pc' = "raised"
               /\ UNCHANGED <<sleeps, attempt, rq_ret>>
  /\ UNCHANGED max_retries
  /\ UNCHANGED <<engine, token_cache, token_callers, others>>

\* ---------------------------------- get_app_access_token, _app_token_cache
\* 'token': None
NoToken == 0

\* 'expires_at': None
NoExpiry == -1

BufferMinutes == 5

DefaultExpiresIn == 3600

SecondsPerMinute == 60

\* the request threads that call get_app_access_token
Callers == {1, 2}

\* the token_data of a successful exchange: expires_in is present or absent
TokenData ==
  {[has_expires_in |-> TRUE, expires_in |-> 360],
   [has_expires_in |-> FALSE, expires_in |-> 0]}

\* how requests.post, raise_for_status, json() or the key lookup can fail
ExchangeFailures == {"HTTP429", "HTTPError", "Timeout", "KeyError"}

\* token_data.get('expires_in', 3600)
ExpiresIn(token_data) ==
  IF token_data.has_expires_in THEN token_data.expires_in ELSE DefaultExpiresIn

\* now + timedelta(seconds=expires_in), on the clock of minutes
ExpiresAt(now, expires_in) == now + expires_in \div SecondsPerMinute

CacheUsableNoBuffer(tok, exp, now) == tok # NoToken /\ exp # NoExpiry /\ now < exp

\* the condition of lines 2213-2215
CacheUsable(tok, exp, now) ==
  tok # NoToken /\ exp # NoExpiry /\ now < exp - BufferMinutes

TokenIdle ==
  /\ clock = 0
  /\ credentials = FALSE
  /\ cache_token = NoToken
  /\ cache_expires_at = NoExpiry
  /\ issued = <<>>
  /\ tk_pc = [c \in Callers |-> "idle"]
  /\ tk_now = [c \in Callers |-> 0]
  /\ tk_token = [c \in Callers |-> NoToken]
  /\ tk_expires_in = [c \in Callers |-> 0]
  /\ tk_posts = [c \in Callers |-> 0]
  /\ tk_fail = [c \in Callers |-> "none"]
  /\ tk_ret = [c \in Callers |-> NoToken]
  /\ tk_from_cache = [c \in Callers |-> FALSE]

\* the application is started with the provider credentials in app.config
Configure ==
  /\ ~credentials
  /\ clock = 0
  /\ \A c \in Callers : tk_pc[c] = "idle" /\ tk_fail[c] = "none"
  /\ credentials' = TRUE
  /\ UNCHANGED <<clock, cache_token, cache_expires_at, issued, token_callers>>
  /\ UNCHANGED <<engine, client, others>>

\* time passes
Tick ==
  /\ clock < MaxClock
  /\ clock' = clock + 1
  /\ UNCHANGED <<credentials, cache_token, cache_expires_at, issued, token_callers>>
  /\ UNCHANGED <<engine, client, others>>

\* line 2211: now = datetime.now(timezone.utc)
TokenCall(c) ==
  /\ tk_pc[c] = "idle"
  /\ tk_now' = [tk_now EXCEPT ![c] = clock]
  /\ tk_posts' = [tk_posts EXCEPT ![c] = 0]
  /\ tk_fail' = [tk_fail EXCEPT ![c] = "none"]
  /\ tk_ret' = [tk_ret EXCEPT ![c] = NoToken]
  /\ tk_from_cache' = [tk_from_cache EXCEPT ![c] = FALSE]
  /\ tk_pc' = [tk_pc EXCEPT ![c] = "check"]
  /\ UNCHANGED <<tk_token, tk_expires_in, token_cache>>
  /\ UNCHANGED <<engine, client, others>>

\* lines 2213-2215: the cache is read and tested
CheckCache(c) ==
  /\ tk_pc[c] = "check"
  /\ tk_pc' = [tk_pc EXCEPT ![c] =
                 IF CacheUsable(cache_token, cache_expires_at, tk_now[c])
                 THEN "serve" ELSE "exchange"]
  /\ UNCHANGED <<tk_now, tk_token, tk_expires_in, tk_posts, tk_fail, tk_ret,
                 tk_from_cache, token_cache>>
  /\ UNCHANGED <<engine, client, others>>

\* line 2216: return _app_token_cache['token']
ServeCached(c) ==
  /\ tk_pc[c] = "serve"
  /\ tk_ret' = [tk_ret EXCEPT ![c] = cache_token]
  /\ tk_from_cache' = [tk_from_cache EXCEPT ![c] = TRUE]
  /\ tk_now' = [tk_now EXCEPT ![c] = 0]
  /\ tk_pc' = [tk_pc EXCEPT ![c] = "idle"]
  /\ UNCHANGED <<tk_token, tk_expires_in, tk_posts, tk_fail, token_cache>>
  /\ UNCHANGED <<engine, client, others>>

\* lines 2221-2226: a credential is missing
MissingCredentials(c) ==
  /\ tk_pc[c] = "exchange"
  /\ ~credentials
  /\ tk_fail' = [tk_fail EXCEPT ![c] = "credentials"]
  /\ tk_ret' = [tk_ret EXCEPT ![c] = NoToken]
  /\ tk_now' = [tk_now EXCEPT ![c] = 0]
  /\ tk_pc' = [tk_pc EXCEPT ![c] = "idle"]
  /\ UNCHANGED <<tk_token, tk_expires_in, tk_posts, tk_from_cache, token_cache>>
  /\ UNCHANGED <<engine, client, others>>

\* lines 2229-2239: the exchange succeeds with a token never issued before,
\* for which the caller will store now + expires_in
ExchangeSucceeds(c) ==
  /\ tk_pc[c] = "exchange"
  /\ credentials
  /\ Len(issued) < MaxTokens
  /\ \E token_data \in TokenData :
       /\ tk_expires_in' = [tk_expires_in EXCEPT ![c] = ExpiresIn(token_data)]
       /\ issued' = Append(issued,
            [expires_at |-> ExpiresAt(tk_now[c], ExpiresIn(token_data))])
  /\ tk_token' = [tk_token EXCEPT ![c] = Len(issued) + 1]
  /\ tk_posts' = [tk_posts EXCEPT ![c] = tk_posts[c] + 1]
  /\ tk_pc' = [tk_pc EXCEPT ![c] = "store_token"]
  /\ UNCHANGED <<tk_now, tk_fail, tk_ret, tk_from_cache, clock, credentials,
                 cache_token, cache_expires_at>>
  /\ UNCHANGED <<engine, client, others>>

\* lines 2229-2238 and 2248-2257: the exchange fails; the handlers return None
ExchangeFails(c) ==
  /\ tk_pc[c] = "exchange"
  /\ credentials
  /\ \E e \in ExchangeFailures : tk_fail' = [tk_fail EXCEPT ![c] = e]
  /\ tk_posts' = [tk_posts EXCEPT ![c] = tk_posts[c] + 1]
  /\ tk_ret' = [tk_ret EXCEPT ![c] = NoToken]
  /\ tk_now' = [tk_now EXCEPT ![c] = 0]
  /\ tk_pc' = [tk_pc EXCEPT ![c] = "idle"]
  /\ UNCHANGED <<tk_token, tk_expires_in, tk_from_cache, token_cache>>
  /\ UNCHANGED <<engine, client, others>>

\* line 2242: _app_token_cache['token'] = access_token
StoreToken(c) ==
  /\ tk_pc[c] = "store_token"
  /\ cache_token' = tk_token[c]
  /\ tk_pc' = [tk_pc EXCEPT ![c] = "store_expiry"]
  /\ UNCHANGED <<tk_now, tk_token, tk_expires_in, tk_posts, tk_fail, tk_ret,
                 tk_from_cache, clock, credentials, cache_expires_at, issued>>
  /\ UNCHANGED <<engine, client, others>>

\* lines 2243-2246: the expiry is stored and the new token returned
StoreExpiry(c) ==
  /\ tk_pc[c] = "store_expiry"
  /\ cache_expires_at' = ExpiresAt(tk_now[c], tk_expires_in[c])
  /\ tk_ret' = [tk_ret EXCEPT ![c] = tk_token[c]]
  /\ tk_token' = [tk_token EXCEPT ![c] = NoToken]
  /\ tk_expires_in' = [tk_expires_in EXCEPT ![c] = 0]
  /\ tk_now' = [tk_now EXCEPT ![c] = 0]
  /\ tk_pc' = [tk_pc EXCEPT ![c] = "idle"]
  /\ UNCHANGED <<tk_posts, tk_fail, tk_from_cache, clock, credentials,
                 cache_token, issued>>
  /\ UNCHANGED <<engine, client, others>>

\* -------------------------------------------------------- normalize_track
\* a key the dictionary does not have, and the value None under a key
Absent == "<absent>"

NoneStr == "<None>"

\* the truth value python gives a string, None or a missing key's .get()
Truthy(v) == v \notin {Absent, NoneStr, ""}

\* dict.get(key, default) and dict.get(key)
Get(v, default) == IF v = Absent THEN default ELSE v

GetOrNone(v) == IF v = Absent THEN NoneStr ELSE v

\* the entries of track['artists']: an artist object with or without a
\* name, or a plain string
ArtistItems ==
  {[is_dict |-> TRUE, name |-> "Ann"], [is_dict |-> TRUE, name |-> Absent],
   [is_dict |-> FALSE, name |-> "Bob"]}

\* track['artists']: missing, None, a list of entries, or a plain string
ArtistsValues ==
  {[kind |-> "absent", items |-> <<>>, text |-> ""],
   [kind |-> "none", items |-> <<>>, text |-> ""],
   [kind |-> "str", items |-> <<>>, text |-> "Cid"]}
  \cup {[kind |-> "list", items |-> s, text |-> ""] : s \in SeqsUpTo(ArtistItems, 2)}

NoImages == [kind |-> "absent", urls |-> <<>>]

\* track['album']: missing, a name only, or an object with an images list
\* whose entries carry a url or not
AlbumValues ==
  {[kind |-> "absent", has_name |-> FALSE, images |-> NoImages],
   [kind |-> "str", has_name |-> TRUE, images |-> NoImages],
   [kind |-> "dict", has_name |-> FALSE, images |-> NoImages],
   [kind |-> "dict", has_name |-> TRUE, images |-> NoImages],
   [kind |-> "dict", has_name |-> TRUE, images |-> [kind |-> "list", urls |-> <<>>]],
   [kind |-> "dict", has_name |-> TRUE, images |-> [kind |-> "list", urls |-> <<Absent>>]],
   [kind |-> "dict", has_name |-> FALSE,
    images |-> [kind |-> "list", urls |-> <<"img640", "img64">>]]}

\* track['external_urls']: missing, or a map with or without 'spotify'
ExternalUrlsValues ==
  {[kind |-> "absent", spotify |-> Absent, other |-> FALSE],
   [kind |-> "dict", spotify |-> "open.spotify/t1", other |-> FALSE],
   [kind |-> "dict", spotify |-> Absent, other |-> TRUE]}

PopularityValues == {[kind |-> "absent", value |-> 0], [kind |-> "int", value |-> 50]}

\* the dictionaries normalize_track is called with
RawTracks ==
  [id : {Absent, "", "t1"},
   name : {Absent, "Song"},
   artist : {Absent, NoneStr, "", "Ann & Bob"},
   artists : ArtistsValues,
   album : AlbumValues,
   image_url : {Absent, "", "cover"},
   preview_url : {Absent, "p.mp3"},
   spotify_url : {Absent, "", "spotify/t1"},
   external_urls : ExternalUrlsValues,
   popularity : PopularityValues]

ArtistsTruthy(a) ==
  \/ a.kind = "list" /\ a.items # <<>>
  \/ a.kind = "str" /\ a.text # ""

AlbumTruthy(al) ==
  \/ al.kind = "str"
  \/ al.kind = "dict" /\ (al.has_name \/ al.images.kind # "absent")

ExternalUrlsTruthy(e) == e.kind = "dict" /\ (e.spotify # Absent \/ e.other)

\* a.get('name', 'Unknown Artist') if isinstance(a, dict) else str(a)
NameOfArtist(a) == IF a.is_dict THEN Get(a.name, "Unknown Artist") ELSE a.name

\* ', '.join(names)
RECURSIVE Join(_)
Join(names) ==
  IF names = <<>> THEN ""
  ELSE IF Len(names) = 1 THEN names[1]
  ELSE names[1] \o ", " \o Join(Tail(names))

\* lines 614-624
ArtistString(track) ==
  IF Truthy(track.artist) THEN track.artist
  ELSE IF ArtistsTruthy(track.artists)
       THEN LET names ==
                  IF track.artists.kind = "list"
                  THEN [k \in DOMAIN track.artists.items |->
                          NameOfArtist(track.artists.items[k])]
                  ELSE <<track.artists.text>>
            IN IF names # <<>> THEN Join(names) ELSE "Unknown Artist"
       ELSE "Unknown Artist"

\* lines 627-631
ImageUrl(track) ==
  LET image_url == GetOrNone(track.image_url)
      album == track.album
  IN IF ~Truthy(image_url) /\ AlbumTruthy(album)
        /\ album.kind = "dict"
        /\ album.images.kind = "list" /\ album.images.urls # <<>>
     THEN GetOrNone(album.images.urls[1])
     ELSE image_url

\* lines 634-636
SpotifyUrl(track) ==
  LET spotify_url == GetOrNone(track.spotify_url) IN
    IF ~Truthy(spotify_url) /\ ExternalUrlsTruthy(track.external_urls)
    THEN GetOrNone(track.external_urls.spotify)
    ELSE spotify_url

HasIdKey(track) == track.id # Absent

\* the negation of line 610's test, for a dictionary that is not empty
HasId(track) == Truthy(track.id)

\* normalize_track: None, or the dictionary of lines 643-654
NormalizeTrack(track) ==
  IF ~HasId(track) THEN None
  ELSE <<[id |-> track.id,
          name |-> Get(track.name, "Unknown Track"),
          artist |-> ArtistString(track),
          artists |-> IF track.artists.kind = "absent"
                      THEN [kind |-> "list", items |-> <<>>, text |-> ""]
                      ELSE track.artists,
          album |-> IF track.album.kind = "absent"
                    THEN [kind |-> "dict", has_name |-> FALSE, images |-> NoImages]
                    ELSE track.album,
          image_url |-> ImageUrl(track),
          preview_url |-> GetOrNone(track.preview_url),
          spotify_url |-> SpotifyUrl(track),
          external_urls |-> IF track.external_urls.kind = "absent"
                            THEN [kind |-> "dict", spotify |-> Absent, other |-> FALSE]
                            ELSE track.external_urls,
          popularity |-> IF track.popularity.kind = "absent"
                         THEN [kind |-> "int", value |-> 0]
                         ELSE track.popularity]>>

\* what normalize_track does not touch
not_normalizer ==
  <<engine, client, token_cache, token_callers, accessors, genre_pool, similar, endpoint, accounts>>

NormalizerIdle ==
  /\ nt_pc = "idle"
  /\ nt_raw = None
  /\ nt_out = None
  /\ nt_again = None

\* a provider item is normalised, as in search_tracks line 589
NormalizeRaw ==
  /\ nt_pc = "idle"
  /\ \E track \in RawTracks :
       /\ nt_raw' = <<track>>
       /\ nt_out' = NormalizeTrack(track)
  /\ nt_pc' = "once"
  /\ UNCHANGED nt_again
  /\ UNCHANGED not_normalizer

\* normalize_track is applied to the dictionary it returned
NormalizeAgain ==
  /\ nt_pc = "once"
  /\ nt_out # None
  /\ nt_again' = NormalizeTrack(nt_out[1])
  /\ nt_pc' = "twice"
  /\ UNCHANGED <<nt_raw, nt_out>>
  /\ UNCHANGED not_normalizer

\* ----------------------------------- the accessors search_tracks, get_artist_info
\* a provider item with the fields the search endpoint fills in
SearchItem(id) ==
  [id |-> id, name |-> "Song", artist |-> Absent,
   artists |-> [kind |-> "list", items |-> <<[is_dict |-> TRUE, name |-> "Ann"]>>,
                text |-> ""],
   album |-> [kind |-> "dict", has_name |-> TRUE, images |-> NoImages],
   image_url |-> Absent, preview_url |-> Absent, spotify_url |-> Absent,
   external_urls |-> [kind |-> "dict", spotify |-> "open.spotify/t1", other |-> FALSE],
   popularity |-> [kind |-> "int", value |-> 50]]

\* data['tracks']['items'] of a 200 answer: items with or without an id
SearchItemLists == SeqsUpTo({SearchItem("t1"), SearchItem("t2"), SearchItem(Absent)}, 2)

\* what the provider does with one HTTP request of search_tracks
SearchAnswers ==
  {[kind |-> "response", status |-> 200, items |-> s] : s \in SearchItemLists}
  \cup {[kind |-> "response", status |-> s, items |-> <<>>] : s \in {429, 500}}
  \cup {[kind |-> "ConnectionError", status |-> 0, items |-> <<>>]}

\* ... and with one of get_artist_info: the artist object of a 200 answer
ArtistAnswers ==
  {[kind |-> "response", status |-> 200, items |-> <<[name |-> n]>>] : n \in {"Ann", ""}}
  \cup {[kind |-> "response", status |-> s, items |-> <<>>] : s \in {429, 404}}
  \cup {[kind |-> "Timeout", status |-> 0, items |-> <<>>]}

\* the provider's answers to the first request and to a repetition of it
AnswerScripts(answers) ==
  {<<a, b>> : a \in answers, b \in {x \in answers : x.kind = "response" /\ x.status = 200}}

\* the tracks of lines 587-591: the normalised items, None dropped
RECURSIVE NormalizedItems(_)
NormalizedItems(items) ==
  IF items = <<>> THEN <<>>
  ELSE NormalizeTrack(Head(items)) \o NormalizedItems(Tail(items))

\* response.raise_for_status(): requests.HTTPError for a 4xx or 5xx status
RaisesForStatus(status) == status >= 400

\* what search_tracks returns when its request is answered by `answer`: the
\* HTTPError of raise_for_status and a transport error are both
\* requests.RequestException, for which lines 595-597 return []
SearchTracksResult(answer) ==
  IF answer.kind = "response" /\ ~RaisesForStatus(answer.status)
  THEN NormalizedItems(answer.items)
  ELSE <<>>

\* what get_artist_info returns: response.json() for a 200, otherwise None
ArtistInfoResult(answer) ==
  IF answer.kind = "response" /\ answer.status = 200 THEN answer.items ELSE None

\* what the accessors do not touch
not_accessors ==
  <<engine, client, token_cache, token_callers, normalizer, genre_pool, similar, endpoint, accounts>>

AccessorsIdle ==
  /\ ac_pc = "idle"
  /\ ac_fn = "none"
  /\ ac_answers = <<>>
  /\ ac_requests = 0
  /\ ac_ret = <<>>

\* search_tracks is called (lines 562-581)
SearchTracksCall ==
  /\ ac_pc = "idle"
  /\ ac_answers' \in AnswerScripts(SearchAnswers)
  /\ ac_pc' = "search_tracks"
  /\ ac_fn' = "search_tracks"
  /\ UNCHANGED <<ac_requests, ac_ret>>
  /\ UNCHANGED not_accessors

\* lines 583-597: one requests.get, raise_for_status, the normalised items;
\* any requests.RequestException ends the call with []
SearchTracks ==
  /\ ac_pc = "search_tracks"
  /\ ac_requests' = ac_requests + 1
  /\ ac_ret' = SearchTracksResult(ac_answers[ac_requests + 1])
  /\ ac_pc' = "returned"
  /\ UNCHANGED <<ac_fn, ac_answers>>
  /\ UNCHANGED not_accessors

\* get_artist_info is called (lines 1497-1510)
GetArtistInfoCall ==
  /\ ac_pc = "idle"
  /\ ac_answers' \in AnswerScripts(ArtistAnswers)
  /\ ac_pc' = "get_artist_info"
  /\ ac_fn' = "get_artist_info"
  /\ UNCHANGED <<ac_requests, ac_ret>>
  /\ UNCHANGED not_accessors

\* lines 1512-1518: one requests.get; the artist object for a 200, else None
GetArtistInfo ==
  /\ ac_pc = "get_artist_info"
  /\ ac_requests' = ac_requests + 1
  /\ ac_ret' = ArtistInfoResult(ac_answers[ac_requests + 1])
  /\ ac_pc' = "returned"
  /\ UNCHANGED <<ac_fn, ac_answers>>
  /\ UNCHANGED not_accessors

\* ------------------- the worker pool of _get_genre_based_recommendations
\* max_workers = max(1, min(len(unique_tags), 3))
PoolWorkerCap == 3

PoolWorkers(n) == IF n < 1 THEN 1 ELSE Min(n, PoolWorkerCap)

\* len(unique_tags): at most max_tags, and not 0 (line 437 returns before)
TagCounts(expand) == 1..(IF expand THEN MaxTagsExpand ELSE MaxTagsNormal)

\* the first queued work item: the one an idle worker thread takes next
FirstQueued(status) ==
  LET queued == {i \in DOMAIN status : status[i] = "queued"} IN
    CHOOSE i \in queued : \A j \in queued : i <= j

GenrePoolIdle ==
  /\ gp_pc = "idle"
  /\ gp_limit = 0
  /\ gp_status = <<>>
  /\ gp_recs = <<>>
  /\ gp_stopped = FALSE

\* what the pool does not touch
not_genre_pool ==
  <<engine, client, token_cache, token_callers, normalizer, accessors, similar, endpoint, accounts>>

\* lines 510-512: every tag is submitted; the executor starts a thread per
\* work item until max_workers threads exist, the other items wait
GenrePoolSubmit ==
  /\ gp_pc = "idle"
  /\ gp_limit' \in Limits
  /\ \E expand \in BOOLEAN : \E n \in TagCounts(expand) :
       gp_status' = [i \in 1..n |-> IF i <= PoolWorkers(n) THEN "running" ELSE "queued"]
  /\ gp_pc' = "pool"
  /\ UNCHANGED <<gp_recs, gp_stopped>>
  /\ UNCHANGED not_genre_pool

\* a process_genre call returns (line 507); its thread takes the next
\* waiting work item, whatever the coordinator is doing
GenreWorkerReturns(i) ==
  /\ gp_pc = "pool"
  /\ i \in DOMAIN gp_status
  /\ gp_status[i] = "running"
  /\ gp_status' =
       LET done == [gp_status EXCEPT ![i] = "done"] IN
         IF \E j \in DOMAIN done : done[j] = "queued"
         THEN [done EXCEPT ![FirstQueued(done)] = "running"]
         ELSE done
  /\ UNCHANGED <<gp_pc, gp_limit, gp_recs, gp_stopped>>
  /\ UNCHANGED not_genre_pool

\* lines 513-523: as_completed hands a finished future to the coordinator,
\* which merges its tracks and leaves the loop when the list is full
GenreCoordinatorTakes(i) ==
  /\ gp_pc = "pool"
  /\ ~gp_stopped
  /\ i \in DOMAIN gp_status
  /\ gp_status[i] = "done"
  /\ \E genre_recs \in PlainLists :
       gp_recs' = MergeLimited(gp_recs, Ids(gp_recs), genre_recs, gp_limit).recs
  /\ gp_stopped' = (Len(gp_recs') >= gp_limit)
  /\ gp_status' = [gp_status EXCEPT ![i] = "taken"]
  /\ UNCHANGED <<gp_pc, gp_limit>>
  /\ UNCHANGED not_genre_pool

\* the end of the `with` block (shutdown(wait=True)): the coordinator has
\* left the loop and every submitted work item has run; line 525 returns
GenrePoolExit ==
  /\ gp_pc = "pool"
  /\ gp_stopped \/ \A i \in DOMAIN gp_status : gp_status[i] = "taken"
  /\ \A i \in DOMAIN gp_status : gp_status[i] \in {"done", "taken"}
  /\ gp_pc' = "returned"
  /\ UNCHANGED <<gp_limit, gp_status, gp_recs, gp_stopped>>
  /\ UNCHANGED not_genre_pool

\* ------------------------------------------- process_artist (Steps B and C)
\* artist names as the providers spell them, and str.lower() of each
ArtistSpellings == {"Ann", "ANN", "Bob", "bob", "Cid"}

Lower(name) ==
  CASE name \in {"Ann", "ANN", "ann"} -> "ann"
    [] name \in {"Bob", "bob"} -> "bob"
    [] name \in {"Cid", "cid"} -> "cid"

\* the metadata provider's artist id of an artist
ArtistIdOf(name) ==
  CASE Lower(name) = "ann" -> 1
    [] Lower(name) = "bob" -> 2
    [] Lower(name) = "cid" -> 3

\* the artist_names of a call: the resolved names of its seed artists
SeedNameChoices == {<<"Ann">>, <<"Ann", "Bob">>}

\* what get_similar_artists returns: names with a match score
SimilarArtistLists ==
  SeqsUpTo({[name |-> n, match |-> m] : n \in ArtistSpellings, m \in Matches}, 2)

\* the artist ids search_tracks can report for the first hits of a query
SearchHitArtists == SeqsUpTo(1..3, 2)

\* line 240: similar_name.lower() == artist_name.lower()
SkipsSimilar(similar_name, artist_name) == Lower(similar_name) = Lower(artist_name)

\* lines 262-289: the first search hit none of whose artists is a seed
\* artist, tagged with the match score of the similar artist
FirstAdmissibleHit(hits, seed_ids, from) ==
  LET ok == {k \in DOMAIN hits : hits[k] \notin seed_ids} IN
    IF ok = {} THEN <<>>
    ELSE LET k == CHOOSE k \in ok : \A l \in ok : k <= l IN
           <<[artist_id |-> hits[k], via |-> from.name,
              lastfm_match |-> from.match]>>

ProcessArtistIdle ==
  /\ pa_pc = "idle"
  /\ pa_names = <<>>
  /\ pa_artist = ""
  /\ pa_similar = <<>>
  /\ pa_left = {}
  /\ pa_fetched = {}
  /\ pa_recs = <<>>

\* what process_artist does not touch
not_similar ==
  <<engine, client, token_cache, token_callers, normalizer, accessors, genre_pool, endpoint, accounts>>

\* lines 216-235: process_artist is started for one of the resolved names
\* and reads its similar artists; the cut to 8 (15) entries binds no list
\* of the model
ProcessArtistBegin ==
  /\ pa_pc = "idle"
  /\ pa_names' \in SeedNameChoices
  /\ pa_artist' \in Range(pa_names')
  /\ pa_similar' \in SimilarArtistLists
  /\ pa_left' = DOMAIN pa_similar'
  /\ pa_pc' = "similar"
  /\ UNCHANGED <<pa_fetched, pa_recs>>
  /\ UNCHANGED not_similar

\* lines 237-294 and 300-302: one get_tracks_from_similar call completes and
\* its tracks are added; the model follows one top track per similar artist
GetTracksFromSimilar(k) ==
  /\ pa_pc = "similar"
  /\ k \in pa_left
  /\ IF SkipsSimilar(pa_similar[k].name, pa_artist)
     THEN UNCHANGED <<pa_fetched, pa_recs>>
     ELSE /\ pa_fetched' = pa_fetched \cup {pa_similar[k].name}
          /\ \E hits \in SearchHitArtists :
               pa_recs' = pa_recs \o
                 FirstAdmissibleHit(hits, {ArtistIdOf(n) : n \in Range(pa_names)},
                                    pa_similar[k])
  /\ pa_left' = pa_left \ {k}
  /\ UNCHANGED <<pa_pc, pa_names, pa_artist, pa_similar>>
  /\ UNCHANGED not_similar

\* line 307: return artist_recommendations
ProcessArtistReturn ==
  /\ pa_pc = "similar"
  /\ pa_left = {}
  /\ pa_pc' = "returned"
  /\ UNCHANGED <<pa_names, pa_artist, pa_similar, pa_left, pa_fetched, pa_recs>>
  /\ UNCHANGED not_similar

\* ------------------------------------- public_get_recommendations (app.py)
\* request bodies: None stands for a missing or empty JSON body
RequestBodies ==
  {None} \cup
  {<<[seed_artists |-> a, seed_tracks |-> t, seed_genres |-> g,
      limit |-> l, exclude_tracks |-> x]>> :
     a \in SeedArtistChoices, t \in SeedTrackChoices, g \in SeedGenreChoices,
     l \in Limits, x \in ExcludeChoices}

\* line 1624: not seed_artists and not seed_tracks and not seed_genres
BodyHasNoSeeds(d) ==
  d.seed_artists = <<>> /\ d.seed_tracks = <<>> /\ d.seed_genres = <<>>

\* lines 1629-1632: the handler's seed_genres after the single-seed default
LocalSeedGenres(d) ==
  IF Len(d.seed_artists) + Len(d.seed_tracks) + Len(d.seed_genres) = 1
     /\ d.seed_genres = <<>>
  THEN <<"pop">>
  ELSE d.seed_genres

\* line 1636: min(data.get('limit', 20), 100)
RecLimit(d) == Min(d.limit, LimitCap)

\* line 1659: seed_artists[:5] if seed_artists else None, then line 64
ForwardedArtists(d) == Take(d.seed_artists, MaxSeeds)

\* line 1660: seed_tracks[:5] if seed_tracks else None, then line 65
ForwardedTracks(d) == Take(d.seed_tracks, MaxSeeds)

\* lines 1658-1663 pass no seed_genres: the parameter keeps its default None,
\* which line 66 of the engine turns into []
ForwardedGenres(d) == <<>>

EndpointIdle ==
  /\ ep_pc = "idle"
  /\ ep_data = None
  /\ ep_seed_genres = <<>>
  /\ ep_status = 0
  /\ ep_recommendations = <<>>

\* what neither the endpoint nor the engine touches
beyond ==
  <<client, token_cache, token_callers, normalizer, accessors, genre_pool,
    similar, accounts>>

\* what the endpoint does not touch
not_endpoint ==
  <<engine, client, token_cache, token_callers, normalizer, accessors, genre_pool, similar, accounts>>

\* lines 1603-1663: the handler up to the call of get_recommendations, whose
\* entry (lines 64-76) is part of the step; token is what get_spotify_token
\* returned
PublicGetRecommendations ==
  /\ ep_pc = "idle"
  /\ pc = "idle"
  /\ \E data \in RequestBodies, token \in BOOLEAN :
       /\ ep_data' = data
       /\ IF data = None \/ ~token \/ BodyHasNoSeeds(data[1])
          THEN /\ ep_status' = IF data = None THEN 400
                               ELSE IF ~token THEN 500
                               ELSE 400
               /\ ep_pc' = "responded"
               /\ UNCHANGED <<ep_seed_genres, ep_recommendations>>
               /\ UNCHANGED engine
          ELSE LET d == data[1] IN
               /\ ep_seed_genres' = LocalSeedGenres(d)
               /\ ep_pc' = "engine"
               /\ seed_artists' = ForwardedArtists(d)
               /\ seed_tracks' = ForwardedTracks(d)
               /\ seed_genres' = ForwardedGenres(d)
               /\ limit' = RecLimit(d)
               /\ exclude_set' = d.exclude_tracks
               /\ expand_search' = ExpandSearchAfter(FALSE, exclude_set')
               /\ result' = ResultInit
               /\ pc' = "select"
               /\ UNCHANGED <<ep_status, ep_recommendations>>
               /\ UNCHANGED <<cascade, helper, excs, ghosts>>
               /\ UNCHANGED <<genre_offered, dropped_match>>
  /\ UNCHANGED beyond

\* lines 1665-1683: get_recommendations has returned; the cut to the limit
\* and the 200 response
PublicRespond ==
  /\ ep_pc = "engine"
  /\ pc = "done"
  /\ ep_recommendations' = Take(result.tracks, limit)
  /\ ep_status' = 200
  /\ ep_pc' = "responded"
  /\ UNCHANGED <<ep_data, ep_seed_genres>>
  /\ UNCHANGED not_endpoint

\* ------------------------------------------------ account lockout (app.py)
MaxAttempts == 5
LockoutMinutes == 30
Usernames == {"user", "stranger"}

\* datetime.now(timezone.utc), in minutes: an aware datetime
UtcNow(minute) == [t |-> minute, tz |-> TRUE]

\* d + timedelta(minutes=m)
PlusMinutes(d, m) == [d EXCEPT !.t = @ + m]

\* a value written to a db.DateTime column (line 153, SQLite, line 120) and
\* read back: the column keeps no timezone, the datetime comes back naive
ColumnDateTime(d) == [d EXCEPT !.tz = FALSE]

\* ordering an aware and a naive datetime raises TypeError
Comparable(a, b) == a.tz = b.tz

\* the lockout columns of the one existing user
UserRow ==
  [failed_login_attempts |-> failed_login_attempts,
   account_locked |-> account_locked,
   locked_until |-> locked_until]

\* db.session.commit(): the row is written and, its attributes being expired
\* by the commit, read back at the next access
Commit(u) ==
  [u EXCEPT !.locked_until = IF @ = None THEN None
                             ELSE <<ColumnDateTime(@[1])>>]

\* lines 165-176
IsAccountLocked(u, now) ==
  IF ~u.account_locked
  THEN [raised |-> FALSE, ret |-> FALSE, user |-> u]
  ELSE IF u.locked_until # None /\ ~Comparable(now, u.locked_until[1])
  THEN [raised |-> TRUE, ret |-> FALSE, user |-> u]
  ELSE IF u.locked_until # None /\ now.t > u.locked_until[1].t
  THEN [raised |-> FALSE, ret |-> FALSE,
        user |-> Commit([failed_login_attempts |-> 0,
                         account_locked |-> FALSE,
                         locked_until |-> None])]
  ELSE [raised |-> FALSE, ret |-> TRUE, user |-> u]

\* lines 178-187
IncrementFailedLogin(u, now) ==
  LET n == u.failed_login_attempts + 1 IN
    Commit([failed_login_attempts |-> n,
            account_locked |-> IF n >= MaxAttempts THEN TRUE
                               ELSE u.account_locked,
            locked_until |-> IF n >= MaxAttempts
                             THEN <<PlusMinutes(now, LockoutMinutes)>>
                             ELSE u.locked_until])

\* lines 189-193
ResetFailedLoginAttempts(u) ==
  IF u.failed_login_attempts > 0
  THEN Commit([u EXCEPT !.failed_login_attempts = 0])
  ELSE u

AccountsIdle ==
  /\ lg_pc = "idle"
  /\ lg_clock = 0
  /\ lg_username = ""
  /\ lg_outcome = "none"
  /\ failed_login_attempts = 0
  /\ account_locked = FALSE
  /\ locked_until = None
  /\ failed_checks = 0

\* what login does not touch
not_accounts ==
  <<engine, client, token_cache, token_callers, normalizer, accessors, genre_pool, similar, endpoint>>

\* lines 428-488: a POST of the login form by a client that is not logged in;
\* correct is the value of bcrypt.check_password_hash for the existing user
Login ==
  /\ lg_pc = "idle"
  /\ \E username \in Usernames, correct \in BOOLEAN :
       LET now == UtcNow(lg_clock)
           first == IsAccountLocked(UserRow, now)
           failed == IncrementFailedLogin(first.user, now)
           second == IsAccountLocked(failed, now)
           r == IF username # "user"
                THEN [user |-> UserRow, outcome |-> "invalid",
                      checks |-> failed_checks]
                ELSE IF first.raised
                THEN [user |-> first.user, outcome |-> "error",
                      checks |-> failed_checks]
                ELSE IF first.ret
                THEN [user |-> first.user, outcome |-> "locked",
                      checks |-> failed_checks]
                ELSE IF correct
                THEN [user |-> ResetFailedLoginAttempts(first.user),
                      outcome |-> "success", checks |-> 0]
                ELSE [user |-> second.user,
                      outcome |-> IF second.raised THEN "error" ELSE "invalid",
                      checks |-> (IF first.user = UserRow THEN failed_checks
                                  ELSE 0) + 1]
       IN /\ lg_username' = username
          /\ lg_outcome' = r.outcome
          /\ failed_login_attempts' = r.user.failed_login_attempts
          /\ account_locked' = r.user.account_locked
          /\ locked_until' = r.user.locked_until
          /\ failed_checks' = r.checks
  /\ lg_pc' = "answered"
  /\ UNCHANGED lg_clock
  /\ UNCHANGED not_accounts

\* the page is shown; the next POST may follow
LoginAgain ==
  /\ lg_pc = "answered"
  /\ lg_pc' = "idle"
  /\ UNCHANGED <<lg_clock, lg_username, lg_outcome, failed_login_attempts,
                 account_locked, locked_until, failed_checks>>
  /\ UNCHANGED not_accounts

\* a minute passes between two requests
LoginMinute ==
  /\ lg_pc = "idle"
  /\ lg_clock < MaxLoginClock
  /\ lg_clock' = lg_clock + 1
  /\ UNCHANGED <<lg_pc, lg_username, lg_outcome, failed_login_attempts,
                 account_locked, locked_until, failed_checks>>
  /\ UNCHANGED not_accounts

\* ----------------------------------------------------------- specification
\* the state before any call
Init ==
  /\ pc = "idle"
  /\ seed_artists = <<>>
  /\ seed_tracks = <<>>
  /\ seed_genres = <<>>
  /\ limit = 0
  /\ exclude_set = {}
  /\ expand_search = FALSE
  /\ result = ResultInit
  /\ artist_names = <<>>
  /\ recommendations = <<>>
  /\ seen_track_ids = {}
  /\ finished = {}
  /\ st_idx = 0
  /\ st_items = 0
  /\ work_left = 0
  /\ work_done = 0
  /\ sub_recs = <<>>
  /\ exc = "none"
  /\ caught = "none"
  /\ escaped = FALSE
  /\ ran = {}
  /\ called = {}
  /\ lastfm_nonempty = FALSE
  /\ contrib = {}
  /\ fallback_out = NotReturned
  /\ genre_offered = {}
  /\ dropped_match = NoDrop
  /\ ClientIdle
  /\ TokenIdle
  /\ NormalizerIdle
  /\ AccessorsIdle
  /\ GenrePoolIdle
  /\ ProcessArtistIdle
  /\ EndpointIdle
  /\ AccountsIdle

Next ==
  \/ Call
  \/ GenreOnlyBegin
  \/ SearchGenre
  \/ GenreOnlyReturn
  \/ NoStrategy
  \/ BeginCascade
  \/ ResolveArtistNames
  \/ \E i \in 1..MaxNameLookups : ProcessArtist(i)
  \/ LeaveArtistPool
  \/ SimilarTracksSeed
  \/ SimilarTrackItem
  \/ TagStep
  \/ ProcessGenre
  \/ CascadeReturn
  \/ GenreTopUp
  \/ Fallback
  \/ FallbackSearch
  \/ FallbackReturn
  \/ Truncate
  \/ ExceptClause

Spec == Init /\ [][Next]_vars

\* direct calls of get_recommendations with six seed artists
NextWide ==
  \/ CallWide
  \/ BeginCascade
  \/ ResolveArtistNames
  \/ \E i \in 1..MaxNameLookups : ProcessArtist(i)
  \/ LeaveArtistPool
  \/ SimilarTracksSeed
  \/ SimilarTrackItem
  \/ TagStep
  \/ ProcessGenre
  \/ CascadeReturn
  \/ GenreTopUp
  \/ Fallback
  \/ FallbackSearch
  \/ FallbackReturn
  \/ Truncate
  \/ ExceptClause

SpecWide == Init /\ [][NextWide]_vars

\* genre-only regeneration calls
NextRegen ==
  \/ CallRegen
  \/ GenreOnlyBegin
  \/ SearchGenreRegen
  \/ GenreOnlyReturn
  \/ Truncate

SpecRegen == Init /\ [][NextRegen]_vars

\* calls of _make_spotify_request
NextClient ==
  \/ MakeSpotifyRequest
  \/ GetResponse
  \/ RequestFails

SpecClient == Init /\ [][NextClient]_vars

\* concurrent calls of get_app_access_token
NextToken ==
  \/ Configure
  \/ Tick
  \/ \E c \in Callers : TokenCall(c)
  \/ \E c \in Callers : CheckCache(c)
  \/ \E c \in Callers : ServeCached(c)
  \/ \E c \in Callers : MissingCredentials(c)
  \/ \E c \in Callers : ExchangeSucceeds(c)
  \/ \E c \in Callers : ExchangeFails(c)
  \/ \E c \in Callers : StoreToken(c)
  \/ \E c \in Callers : StoreExpiry(c)

SpecToken == Init /\ [][NextToken]_vars

\* calls of normalize_track
NextNorm ==
  \/ NormalizeRaw
  \/ NormalizeAgain

SpecNorm == Init /\ [][NextNorm]_vars

\* calls of the metadata accessors
NextAccess ==
  \/ SearchTracksCall
  \/ SearchTracks
  \/ GetArtistInfoCall
  \/ GetArtistInfo

SpecAccess == Init /\ [][NextAccess]_vars

\* runs of the process_genre pool
NextPool ==
  \/ GenrePoolSubmit
  \/ \E i \in 1..MaxTagsExpand : GenreWorkerReturns(i)
  \/ \E i \in 1..MaxTagsExpand : GenreCoordinatorTakes(i)
  \/ GenrePoolExit

SpecPool == Init /\ [][NextPool]_vars

\* calls of process_artist
NextSimilar ==
  \/ ProcessArtistBegin
  \/ \E k \in 1..2 : GetTracksFromSimilar(k)
  \/ ProcessArtistReturn

SpecSimilar == Init /\ [][NextSimilar]_vars

\* requests to /api/public/recommendations; the genre-only helper is not
\* among the steps because every call the handler makes has no seed_genres
NextEndpoint ==
  \/ PublicGetRecommendations
  \/ NoStrategy
  \/ BeginCascade
  \/ ResolveArtistNames
  \/ \E i \in 1..MaxNameLookups : ProcessArtist(i)
  \/ LeaveArtistPool
  \/ SimilarTracksSeed
  \/ SimilarTrackItem
  \/ TagStep
  \/ ProcessGenre
  \/ CascadeReturn
  \/ GenreTopUp
  \/ Fallback
  \/ FallbackSearch
  \/ FallbackReturn
  \/ Truncate
  \/ ExceptClause
  \/ PublicRespond

SpecEndpoint == Init /\ [][NextEndpoint]_vars

\* POSTs of the login form while time passes
NextLogin ==
  \/ Login
  \/ LoginAgain
  \/ LoginMinute

SpecLogin == Init /\ [][NextLogin]_vars

\* ------------------------------------------------------------------ claims
NoSeeds == ~HasArtists /\ ~HasTracks /\ ~HasGenres

\* C1: every call returns at most `limit` tracks.
C1_BoundRespected == pc = "done" => Len(result.tracks) <= limit

\* a regenerating call whose metadata fallback returned more admissible tracks
\* than `limit`, and whose result is full
C1_Witness ==
  /\ pc = "done"
  /\ limit > 0
  /\ fallback_out # NotReturned
  /\ Len(FilterExcluded(fallback_out, exclude_set)) > limit
  /\ Len(result.tracks) = limit

\* C2: no returned track has an id in exclude_track_ids, in every strategy.
C2_ExclusionRespected == pc = "done" => Ids(result.tracks) \cap exclude_set = {}

\* a call in which the metadata fallback offered an excluded track and the
\* result is non-empty
C2_Witness ==
  /\ pc = "done"
  /\ result.tracks # <<>>
  /\ fallback_out # NotReturned
  /\ \E t \in Range(fallback_out) : t.id \in exclude_set

\* C3: the returned list never contains two entries with the same id.
C3_NoDuplicateIds ==
  pc = "done" =>
    \A i, j \in DOMAIN result.tracks :
      result.tracks[i].id = result.tracks[j].id => i = j

\* a call in which the metadata fallback offered a track that the cascade had
\* already put into the result, which holds two tracks
C3_Witness ==
  /\ pc = "done"
  /\ Len(result.tracks) >= 2
  /\ fallback_out # NotReturned
  /\ \E t \in Range(fallback_out) : \E k \in DOMAIN result.tracks :
       /\ result.tracks[k].id = t.id
       /\ "lastfm_match" \in DOMAIN result.tracks[k]

\* C4: in an artist-seeded call no returned track is by a seed artist.
C4_NoSelfRecommendation ==
  (pc = "done" /\ "artist" \in ran) =>
    \A k \in DOMAIN result.tracks : NotBySeedArtist(result.tracks[k].id, seed_artists)

\* C5: no exception leaves get_recommendations; when a step raises, the call
\* ends with the result dictionary as it stood when the exception was raised.
C5_NeverRaises ==
  [][ /\ escaped' = FALSE
      /\ pc = "raising" => (pc' = "done" /\ result' = result) ]_vars

\* a call that ended through the except clause with tracks already stored
C5_Witness == pc = "done" /\ caught = "Other" /\ result.tracks # <<>>

\* C6: without any seed the call returns no track, both source flags false,
\* and no provider was called.
C6_NoSeedsEmptyResult ==
  (pc = "done" /\ NoSeeds) =>
    /\ result.tracks = <<>>
    /\ ~result.lastfm
    /\ ~result.spotify
    /\ called = {}

\* a finished call without seeds that asked for tracks
C6_Witness == pc = "done" /\ NoSeeds /\ limit > 0 /\ exclude_set # {}

\* C7: with at least one seed exactly one strategy runs: genre-only iff only
\* genres are given, artist-seeded iff artists are given, track-only iff
\* tracks are given without artists.
C7_ExactlyOneStrategy ==
  (pc = "done" /\ ~NoSeeds) =>
    /\ Cardinality(ran) = 1
    /\ "genre" \in ran <=> (seed_genres # <<>> /\ seed_artists = <<>> /\ seed_tracks = <<>>)
    /\ "artist" \in ran <=> seed_artists # <<>>
    /\ "track" \in ran <=> (seed_tracks # <<>> /\ seed_artists = <<>>)

\* a finished artist-seeded call that also had tracks and genres
C7_Witness ==
  pc = "done" /\ ran = {"artist"} /\ seed_tracks # <<>> /\ seed_genres # <<>>

C9_Degradation ==
  (pc = "done" /\ "artist" \in ran /\ ~lastfm_nonempty) =>
    /\ ~result.lastfm
    /\ (Len(result.tracks) < limit /\ caught = "none") => fallback_out # NotReturned
    /\ fallback_out # NotReturned =>
         /\ \A t \in Range(fallback_out) :
              t.id \notin exclude_set =>
                (t.id \in Ids(result.tracks) \/ Len(result.tracks) = limit)
         /\ (\E t \in Range(fallback_out) : t.id \notin exclude_set) =>
              result.tracks # <<>>

\* a degraded artist-seeded call whose only tracks come from the fallback
C9_Witness ==
  /\ pc = "done"
  /\ "artist" \in ran
  /\ ~lastfm_nonempty
  /\ "lastfm" \in called
  /\ fallback_out # NotReturned
  /\ result.tracks # <<>>
  /\ result.tracks = Take(FilterExcluded(fallback_out, exclude_set), limit)

\* C10: the similarity flag is true iff a candidate came from a similarity
\* path, the metadata flag is true iff a candidate came from a metadata
\* search path.
C10_SourcesReflectProviders ==
  pc = "done" =>
    /\ result.lastfm <=> "lastfm" \in contrib
    /\ result.spotify <=> "spotify" \in contrib

\* C11: get_recommendations works with at most the first five entries of
\* each seed list and with a limit of at most 100: the strategies are asked
\* for no more candidates than a limit of 100 allows, no call returns more
\* than 100 tracks, and what a similarity worker or the metadata fallback may
\* return is what it may return for the first five seed artists alone.
C11_SeedsAndLimitCapped ==
  pc # "idle" =>
    /\ SearchLimit <= LimitCap * RegenFactor
    /\ Len(result.tracks) <= LimitCap
    /\ Len(seed_tracks) <= MaxSeeds
    /\ TaggedLists(seed_artists) = TaggedLists(Take(seed_artists, MaxSeeds))
    /\ AdmissiblePlainLists(seed_artists)
         = AdmissiblePlainLists(Take(seed_artists, MaxSeeds))

\* C12: a regenerating call returns no excluded id, returns a track whenever
\* the providers returned at least `limit` distinct tracks that are not
\* excluded, and returns nothing only when they returned no such track,
\* whatever the size of the exclude set.
C12_RegenerationNonEmpty ==
  (pc = "done" /\ exclude_set # {} /\ limit > 0) =>
    /\ Ids(result.tracks) \cap exclude_set = {}
    /\ Cardinality(genre_offered \ exclude_set) >= limit => result.tracks # <<>>
    /\ result.tracks = <<>> => genre_offered \ exclude_set = {}

SortedDesc(s) ==
  \A i, j \in DOMAIN s : i < j => MatchKey(s[i]) >= MatchKey(s[j])

Pos(s, i) == CHOOSE k \in DOMAIN s : s[k].id = i

\* tracks of equal relevance stand in `s` in the order they have in `order`
TiesInOrderOf(s, order) ==
  \A i, j \in DOMAIN s :
    (i < j /\ MatchKey(s[i]) = MatchKey(s[j])) =>
      Pos(order, s[i].id) < Pos(order, s[j].id)

IsPrefix(s, u) == Len(s) <= Len(u) /\ SubSeq(u, 1, Len(s)) = s

AfterCascade == {"topup_genre", "fallback", "fallback_search", "truncate", "done"}

\* C13: the list the similarity cascade returns is sorted by descending
\* relevance (a missing score counting as 0), tracks of equal relevance in
\* the order in which they were inserted, and as long as `limit` allows when
\* nothing is excluded; the list of an artist-seeded or track-only call stays
\* sorted by descending relevance until it is returned.
C13_SortedByRelevance ==
  [][ /\ (pc = "tag_workers" /\ pc' \in AfterCascade) =>
           LET inserted == AppendUnseen(recommendations, seen_track_ids, sub_recs).recs IN
             /\ SortedDesc(result'.tracks)
             /\ Range(result'.tracks) \subseteq Range(inserted)
             /\ TiesInOrderOf(result'.tracks, inserted)
             /\ exclude_set = {} => Len(result'.tracks) = Min(limit, Len(inserted))
      /\ (pc' \in AfterCascade /\ ran' \cap {"artist", "track"} # {}) =>
           SortedDesc(result'.tracks) ]_vars

\* an artist-seeded call without regeneration whose cascade returned `limit`
\* tracks of different relevance, in descending order, and no top-up ran
C13_Witness ==
  /\ pc = "done"
  /\ ran = {"artist"}
  /\ exclude_set = {}
  /\ caught = "none"
  /\ fallback_out = NotReturned
  /\ limit = 2
  /\ Len(result.tracks) = 2
  /\ MatchKey(result.tracks[1]) > MatchKey(result.tracks[2])

CascadePhases == {"similar_artists", "st_seed", "st_item", "tags", "tag_workers"}

TopUpPhases == {"topup_genre", "fallback", "fallback_search"}

\* C14: first inserted wins, whatever the order in which the workers
\* complete: a record accepted into the candidate list of the cascade, of a
\* helper or into the result is neither replaced nor re-scored by a later
\* sighting of its id, and the seen set is at every step the set of the ids
\* of the candidate list (the coordinator alone changes both).
C14_FirstInsertedWins ==
  [][ /\ (pc \in CascadePhases /\ pc' \in CascadePhases) =>
           /\ IsPrefix(recommendations, recommendations')
           /\ seen_track_ids' = Ids(recommendations')
      /\ (pc' = pc /\ pc \in {"genre_search", "tag_workers", "fallback_search"}) =>
           IsPrefix(sub_recs, sub_recs')
      /\ (pc = "tag_workers" /\ pc' \in AfterCascade) =>
           \A k \in DOMAIN result'.tracks :
             result'.tracks[k].id \in seen_track_ids =>
               result'.tracks[k] \in Range(recommendations)
      /\ (pc \in TopUpPhases /\ pc' \in AfterCascade) =>
           IsPrefix(result.tracks, result'.tracks) ]_vars

\* the metadata fallback sighted again the only track the cascade had
\* accepted, and the returned record still carries the cascade's score
C14_Witness ==
  /\ pc = "done"
  /\ fallback_out # NotReturned
  /\ Len(result.tracks) = 1
  /\ "lastfm_match" \in DOMAIN result.tracks[1]
  /\ result.tracks[1].id \in Ids(fallback_out)

Is429(o) == o.kind = "response" /\ o.status = 429

IsOtherResponse(o) == o.kind = "response" /\ o.status # 429

IsFailure(o) == o.kind # "response"

AllRateLimited(s) == \A i \in DOMAIN s : Is429(s[i])

C16_RateLimitSleepCapped ==
  /\ Len(outcomes) <= max_retries
  /\ \A i \in DOMAIN sleeps :
       Is429(outcomes[i]) =>
         /\ sleeps[i].secs = Min(RetryAfter(outcomes[i]), 10)
         /\ sleeps[i].secs <= 10

C18_TokenCache ==
  [][ \A c \in Callers :
        /\ (tk_pc[c] = "check" /\ tk_pc'[c] # "check") =>
             /\ tk_pc'[c] \in {"serve", "exchange"}
             /\ tk_pc'[c] = "serve" <=>
                  ( /\ cache_token # NoToken
                    /\ cache_expires_at # NoExpiry
                    /\ tk_now[c] < cache_expires_at - 5 )
        /\ (tk_pc[c] = "serve" /\ tk_pc'[c] # "serve") =>
             /\ tk_ret'[c] = cache_token
             /\ tk_posts'[c] = 0
             /\ UNCHANGED <<cache_token, cache_expires_at, issued>>
        /\ (tk_pc[c] = "exchange" /\ tk_pc'[c] # "exchange" /\ credentials) =>
             tk_posts'[c] = 1
        /\ (tk_pc[c] = "store_token" /\ tk_pc'[c] # "store_token") =>
             cache_token' = tk_token[c]
        /\ (tk_pc[c] = "store_expiry" /\ tk_pc'[c] # "store_expiry") =>
             /\ cache_expires_at' = ExpiresAt(tk_now[c], tk_expires_in[c])
             /\ tk_ret'[c] = tk_token[c]
             /\ tk_posts'[c] = 1 ]_vars

\* the first token ran out, a second one was exchanged, and a caller has
\* been served the second token from the cache
C18_Witness ==
  /\ Len(issued) = 2
  /\ cache_token = 2
  /\ \E c \in Callers : tk_pc[c] = "idle" /\ tk_from_cache[c] /\ tk_ret[c] = 2

\* C19: a call that ends without a token returns None, leaves the cached
\* token and expires_at as they were, and gives up on a 429 or a timeout of
\* the exchange only after the exchange has been retried.
C19_NoneAfterRetries ==
  [][ \A c \in Callers :
        (tk_pc[c] = "exchange" /\ tk_pc'[c] = "idle") =>
          /\ tk_ret'[c] = NoToken
          /\ UNCHANGED <<cache_token, cache_expires_at>>
          /\ tk_fail'[c] \in {"HTTP429", "Timeout"} => tk_posts'[c] > 1 ]_vars

\* C20: under concurrent callers every caller receives None or a token some
\* exchange issued; when no caller is between its two stores, the cached
\* token and expires_at come from the same exchange; and no token is served
\* from the cache at or after its own expiry (the now + expires_in of its
\* exchange) - 5 minutes.
C20_RefreshSafe ==
  [][ /\ \A c \in Callers : tk_ret'[c] = NoToken \/ tk_ret'[c] \in 1..Len(issued')
      /\ ( /\ \A c \in Callers : tk_pc'[c] # "store_expiry"
           /\ cache_token' # NoToken
           /\ cache_expires_at' # NoExpiry ) =>
           cache_expires_at' = issued'[cache_token'].expires_at
      /\ \A c \in Callers :
           (tk_pc[c] = "serve" /\ tk_pc'[c] # "serve" /\ tk_ret'[c] # NoToken) =>
             tk_now[c] < issued[tk_ret'[c]].expires_at - 5 ]_vars

TrackFields ==
  {"id", "name", "artist", "artists", "album", "image_url", "preview_url",
   "spotify_url", "external_urls", "popularity"}

\* C21: normalize_track returns None exactly for the records without an id,
\* and applied to a record it returned it returns a record with the same
\* value in every one of the ten fields.
C21_NormalizeIdempotent ==
  /\ nt_pc # "idle" => (nt_out = None <=> ~Truthy(nt_raw[1].id))
  /\ nt_pc = "twice" =>
       /\ nt_again # None
       /\ DOMAIN nt_again[1] = TrackFields
       /\ \A f \in TrackFields : nt_again[1][f] = nt_out[1][f]

\* a raw provider item whose artist string, image and link are all derived
\* from the nested fields has been normalised twice
C21_Witness ==
  /\ nt_pc = "twice"
  /\ ~Truthy(nt_raw[1].artist)
  /\ nt_out[1].artist = "Ann, Unknown Artist"
  /\ ~Truthy(nt_raw[1].image_url)
  /\ nt_out[1].image_url = "img640"
  /\ ~Truthy(nt_raw[1].spotify_url)
  /\ nt_out[1].spotify_url = "open.spotify/t1"
  /\ nt_raw[1].name = Absent
  /\ nt_again[1].name = "Unknown Track"

C23_RateLimitAbsorbed ==
  (ac_pc = "returned" /\ ac_answers[1].status = 429) =>
    /\ ac_requests = 2
    /\ ac_fn = "search_tracks" => ac_ret = SearchTracksResult(ac_answers[2])
    /\ ac_fn = "get_artist_info" => ac_ret = ArtistInfoResult(ac_answers[2])

\* C24: once the candidate list of a step has reached its limit, no work
\* item that had not yet started is started, and the candidate list never
\* holds more than the limit.
C24_NoNewWorkOnceFull ==
  [][ (gp_pc = "pool" /\ gp_pc' = "pool") =>
        /\ \A i \in DOMAIN gp_status :
             (gp_status[i] = "queued" /\ gp_status'[i] = "running") =>
               Len(gp_recs) < gp_limit
        /\ Len(gp_recs') <= gp_limit ]_vars

IsSeedName(name) == \E n \in Range(pa_names) : Lower(n) = Lower(name)

\* C25: a similar artist whose name equals, whatever the case, the name of
\* any seed artist of the call is skipped: its top tracks are not fetched and
\* no candidate comes from it.
C25_SeedNamedSimilarSkipped ==
  /\ \A name \in pa_fetched : ~IsSeedName(name)
  /\ \A k \in DOMAIN pa_recs : ~IsSeedName(pa_recs[k].via)

\* C26: a track-only call uses only the track-similarity path: no
\* similar-artist lookup, no tag path and no top-up is run, and every
\* returned track was resolved from a similar track of a seed track.
C26_TrackOnlyPath ==
  "track" \in ran =>
    /\ seed_artists = <<>>
    /\ artist_names = <<>>
    /\ finished = {}
    /\ work_left = 0 /\ work_done = 0 /\ sub_recs = <<>>
    /\ pc \notin TopUpPhases
    /\ fallback_out = NotReturned
    /\ ~result.spotify
    /\ \A k \in DOMAIN result.tracks : "lastfm_match" \in DOMAIN result.tracks[k]
    /\ \A k \in DOMAIN recommendations : "lastfm_match" \in DOMAIN recommendations[k]

\* a finished track-only call that also had genres, found a track and
\* returned fewer tracks than asked for
C26_Witness ==
  /\ pc = "done"
  /\ ran = {"track"}
  /\ seed_genres # <<>>
  /\ Len(result.tracks) = 1
  /\ limit = 2
  /\ caught = "none"

\* C27: when the similar-artist step finds more admissible tracks than
\* the limit, no track it dropped has a strictly higher match score than a
\* track it kept and the call returned, whatever the order in which the
\* workers complete.
C27_HighestRankedKept ==
  (pc = "done" /\ seed_tracks = <<>> /\ dropped_match # NoDrop) =>
    \A k \in DOMAIN result.tracks :
      "lastfm_match" \in DOMAIN result.tracks[k] =>
        dropped_match <= result.tracks[k].lastfm_match

\* C28: when a step of an artist-seeded call raises an unexpected
\* exception, also in regeneration mode and after the cascade has stored
\* its candidates, the returned result has at most `limit` tracks and no
\* excluded id.
C28_FailedTopUpKeepsBounds ==
  (pc = "done" /\ "artist" \in ran /\ caught # "none") =>
    /\ Len(result.tracks) <= limit
    /\ Ids(result.tracks) \cap exclude_set = {}

\* a regenerating artist-seeded call whose cascade stored one candidate,
\* fewer than asked for, and whose top-up then raised
C28_Witness ==
  /\ pc = "done"
  /\ ran = {"artist"}
  /\ exclude_set # {}
  /\ caught = "Other"
  /\ limit = 2
  /\ Len(result.tracks) = 1
  /\ "lastfm_match" \in DOMAIN result.tracks[1]

\* C29: a request to the public recommendations endpoint forwards all three
\* seed lists to the engine: the engine runs with the request's artists and
\* tracks (first five each) and with the handler's seed_genres, and a request
\* carrying only seed_genres ends with the genre-only strategy having run.
C29_EndpointForwardsSeeds ==
  ep_pc = "engine" =>
    /\ seed_artists = Take(ep_data[1].seed_artists, MaxSeeds)
    /\ seed_tracks = Take(ep_data[1].seed_tracks, MaxSeeds)
    /\ seed_genres = Take(ep_seed_genres, MaxSeeds)
    /\ (/\ pc = "done"
        /\ ep_data[1].seed_artists = <<>>
        /\ ep_data[1].seed_tracks = <<>>) => "genre" \in ran

\* a login POST for the existing user has just been answered
LoginAnswered == lg_pc = "idle" /\ lg_pc' = "answered" /\ lg_username' = "user"

\* C30: account lockout.  A failed password check that brings the counter to
\* 5 locks the account, the counter being the number of consecutive failed
\* checks; while the account is locked and locked_until has not passed no
\* login succeeds and failed_login_attempts does not change; a login after
\* locked_until has passed finds the account unlocked with the counter reset
\* to 0 (so it ends unlocked with a counter of at most 1); a successful login
\* leaves the counter at 0.
C30_AccountLockout ==
  [][LoginAnswered =>
       /\ failed_login_attempts' = failed_checks'
       /\ failed_login_attempts' >= MaxAttempts => account_locked'
       /\ (account_locked /\ lg_clock <= locked_until[1].t) =>
            /\ lg_outcome' # "success"
            /\ failed_login_attempts' = failed_login_attempts
       /\ (account_locked /\ lg_clock > locked_until[1].t) =>
            /\ ~account_locked'
            /\ failed_login_attempts' <= 1
       /\ lg_outcome' = "success" => failed_login_attempts' = 0]_vars
====
